---- MODULE Spec2Model ----
(***************************************************************************)
(* Model of the resilient structured-generation pipeline of Sora-Webapp:   *)
(* the credential pool (createKeyManager), the completion failover client  *)
(* (createLongcatClient.post / jsonCompletion), the synthesis client       *)
(* (synthesizeHeadline) and the orchestrator (summarizeToSlides) with its  *)
(* heuristic fallback.                                                     *)
(*                                                                         *)
(* JavaScript runs one task at a time: the code between two awaits is one  *)
(* atomic action.  The backoff delay touches no state and is folded into   *)
(* the action that handles the failed call.                                *)
(***************************************************************************)
EXTENDS Integers, Sequences, FiniteSets, TLC

VARIABLES
    configured,   \* key list resolveKeys() handed to createKeyManager
    pool,         \* createKeyManager: pool of the one shared client
    index,        \* createKeyManager: cursor (0-based)
    pc,           \* the observed request: "idle", "inflight", "settled", "done"
    text,         \* the source text given to summarizeToSlides
    apiKey,       \* post(): const apiKey of the current while-iteration
    attempt,      \* post(): for-loop counter
    lastError,    \* post(): let lastError
    calls,        \* number of fetch() calls issued by this invocation
    startPool,    \* pool as it was when the invocation selected its first key
    rejected,     \* keys this invocation handed to markInvalid
    seen,         \* classes of outcomes this invocation has met
    postResult,   \* what post()/jsonCompletion returned or raised
    sumResult,    \* what summarizeToSlides returned or raised
    keyManager,   \* synthesizeHeadline: [pool, index] of its key manager
    voiceManager, \* synthesizeHeadline: [pool, index] of its voice manager
    ttsPc,        \* synthesizeHeadline: "idle", "inflight", "done"
    currentKey,   \* synthesizeHeadline: const currentKey
    currentVoiceId, \* synthesizeHeadline: const currentVoiceId
    ttsAttempt,   \* synthesizeHeadline: for-loop counter
    ttsLastError, \* synthesizeHeadline: let lastError
    ttsCalls,     \* number of fetch() calls issued by this synthesis
    ttsSeen,      \* classes of outcomes this synthesis has met
    ttsResult,    \* what synthesizeHeadline returned or raised
    ttsStartPools, \* the key and voice pools synthesizeHeadline built at its start
    call,         \* a function of the program with the arguments it is called on
    ret,          \* what that call returned or raised
    downloadStore, \* server.js: the fileIds downloadStore holds a record for
    renders,      \* the fileIds whose file is in RENDERS_DIR
    issued,       \* the fileIds randomUUID() has handed out
    requests,     \* GET /api/download: the requests received, in order of arrival
    closed,       \* the fileIds a read stream of which has emitted 'close'
    videoPc,      \* POST /api/create-video: "idle", "images", "tts", "synthesis",
                  \* "track", "render", "done"
    plannedSlides, \* the number of slides summarizeToSlides planned
    mediaEntries, \* const mediaEntries
    audioClips,   \* const audioClips
    ttsError,     \* let ttsError
    voiceover,    \* the track handed to renderLocalVideo
    slideLogs,    \* const slideLogs
    response,     \* what the request is answered with
    events        \* the steps of the request in the order they ran (history)

clientVars == <<configured, pool, index, pc, text, apiKey, attempt, lastError,
                calls, startPool, rejected, seen, postResult, sumResult>>

ttsVars == <<keyManager, voiceManager, ttsPc, currentKey, currentVoiceId, ttsAttempt,
             ttsLastError, ttsCalls, ttsSeen, ttsResult, ttsStartPools>>

downloadVars == <<downloadStore, renders, issued, requests, closed>>

videoVars == <<videoPc, plannedSlides, mediaEntries, audioClips, ttsError, voiceover, slideLogs,
               response, events>>

vars == <<clientVars, ttsVars, call, ret, downloadVars, videoVars>>

-----------------------------------------------------------------------------
(* Bounds of the model *)

MaxListLen == 1

MaxCalls == 7

MaxRequests == 3

MaxSlides == 3

(* Program constants *)

MAX_ATTEMPTS == 3

MAX_TTS_ATTEMPTS == 3

\* variant: 404 is retried as well
RetryableWith404 == {404, 408, 409, 425, 429, 500, 502, 503, 504}

RETRYABLE_STATUS_CODES == {408, 409, 425, 429, 500, 502, 503, 504}

RETRYABLE_CAUSE_CODES ==
    {"UND_ERR_CONNECT_TIMEOUT", "UND_ERR_HEADERS_TIMEOUT", "UND_ERR_SOCKET",
     "UND_ERR_BODY_TIMEOUT", "ECONNRESET", "ECONNREFUSED", "EHOSTUNREACH",
     "ETIMEDOUT", "ENOTFOUND"}

-----------------------------------------------------------------------------
(* Generic sequence helpers *)

RECURSIVE SeqsUpTo(_, _)
SeqsUpTo(S, n) ==
    IF n = 0 THEN {<<>>}
    ELSE LET shorter == SeqsUpTo(S, n - 1)
         IN  shorter \cup {Append(s, x) : s \in shorter, x \in S}

Range(s) == {s[i] : i \in 1..Len(s)}

\* Array.prototype.indexOf, 0-based, -1 when absent
IndexOf(s, x) ==
    IF \E i \in 1..Len(s) : s[i] = x
    THEN (CHOOSE i \in 1..Len(s) : s[i] = x /\ \A j \in 1..(i - 1) : s[j] # x) - 1
    ELSE -1

\* Array.prototype.splice(position, 1), 0-based position
RemoveAt(s, position) ==
    [i \in 1..(Len(s) - 1) |-> IF i <= position THEN s[i] ELSE s[i + 1]]

\* String.prototype.includes on token sequences: pat is a contiguous part of s
Includes(s, pat) ==
    \E i \in 0..(Len(s) - Len(pat)) : \A j \in 1..Len(pat) : s[i + j] = pat[j]

-----------------------------------------------------------------------------
(* Errors.  A message is a sequence of tokens; an Error carries its name,  *)
(* its code and its cause (NoErr when it has none).                        *)

NoErr == [none |-> TRUE]

IsErr(e) == "message" \in DOMAIN e

Err(message, cause) == [message |-> message, name |-> "Error", code |-> "", cause |-> cause]

\* error?.cause ?? error
CauseOrSelf(e) == IF IsErr(e) /\ IsErr(e.cause) THEN e.cause ELSE e

\* e is target or has target in its cause chain
RECURSIVE InCauseChain(_, _)
InCauseChain(e, target) ==
    /\ IsErr(e)
    /\ \/ e = target
       \/ InCauseChain(e.cause, target)

\* [a, b].filter(Boolean).join(' ')
JoinMessages(a, b) ==
    IF a = <<>> THEN b ELSE IF b = <<>> THEN a ELSE a \o <<" ">> \o b

\* String.prototype.toLowerCase on one token
LowerTok(t) ==
    CASE t = "Longcat" -> "longcat"
      [] t = "All" -> "all"
      [] t = "API" -> "api"
      [] t = "The" -> "the"
      [] t = "Missing" -> "missing"
      [] t = "IDs" -> "ids"
      [] t = "Service" -> "service"
      [] t = "ElevenLabs" -> "elevenlabs"
      [] t = "ENOTFOUND" -> "enotfound"
      [] t = "TIMEOUT" -> "timeout"
      [] t = "SOCKET" -> "socket"
      [] t = "UND_ERR_CONNECT_" -> "und_err_connect_"
      [] t = "UND_ERR_" -> "und_err_"
      [] t = "CERT_HAS_EXPIRED" -> "cert_has_expired"
      [] t = "ELEVENLABS_API_KEY" -> "elevenlabs_api_key"
      [] t = "ELEVENLABS_VOICE_ID" -> "elevenlabs_voice_id"
      [] t = "ECONNREFUSED" -> "econnrefused"
      [] t = "ENOSPC" -> "enospc"
      [] OTHER -> t

Lower(s) == [i \in 1..Len(s) |-> LowerTok(s[i])]

\* an error code written into a message, cut where the searched words begin
CodeTokens(code) ==
    CASE code = "UND_ERR_CONNECT_TIMEOUT" -> <<"UND_ERR_CONNECT_", "TIMEOUT">>
      [] code = "UND_ERR_SOCKET" -> <<"UND_ERR_", "SOCKET">>
      [] OTHER -> <<code>>

-----------------------------------------------------------------------------
(* Credentials.  A key is a sequence of tokens: "1.", "2." ... are the     *)
(* numbered-list prefixes matched by /^[0-9]+\./, " " is white space, any  *)
(* other token is key material.  <<>> is the empty string (falsy).         *)

NumPrefixes == {"1.", "2.", "3.", "4."}

NullKey == <<>>

RECURSIVE TrimLeftKey(_)
TrimLeftKey(k) == IF k # <<>> /\ Head(k) = " " THEN TrimLeftKey(Tail(k)) ELSE k

RECURSIVE TrimRightKey(_)
TrimRightKey(k) ==
    IF k # <<>> /\ k[Len(k)] = " " THEN TrimRightKey(SubSeq(k, 1, Len(k) - 1)) ELSE k

TrimKey(k) == TrimRightKey(TrimLeftKey(k))

sanitizeKey(value) ==
    LET trimmed == TrimKey(value)
    IN  IF trimmed = <<>> THEN <<>>
        ELSE IF Head(trimmed) \in NumPrefixes THEN TrimKey(Tail(trimmed))
        ELSE trimmed

DEFAULT_LONGCAT_KEY == <<"ak_default">>

DEFAULT_KEY_POOL == <<DEFAULT_LONGCAT_KEY>>

\* first-seen-order de-duplication of the sanitized, non-empty entries
RECURSIVE AddAll(_, _)
AddAll(ordered, values) ==
    IF values = <<>> THEN ordered
    ELSE LET sanitized == sanitizeKey(Head(values))
             next == IF sanitized = <<>> \/ sanitized \in Range(ordered)
                     THEN ordered ELSE Append(ordered, sanitized)
         IN  AddAll(next, Tail(values))

parseKeyList(entries) ==
    SelectSeq([i \in 1..Len(entries) |-> sanitizeKey(entries[i])], LAMBDA k : k # <<>>)

resolveKeys(explicitKey, explicitList, envList, envKey) ==
    LET ordered == AddAll(AddAll(AddAll(AddAll(AddAll(<<>>,
                       explicitList), <<explicitKey>>),
                       parseKeyList(envList)), <<envKey>>),
                       DEFAULT_KEY_POOL)
    IN  IF Len(ordered) > 0 THEN ordered ELSE <<DEFAULT_LONGCAT_KEY>>

\* createKeyManager: the pool it builds from the keys it is given
KeyManagerPool(keys) == AddAll(<<>>, keys)

\* the cursor after current() has run (it resets an out-of-range cursor)
CurrentIndex(p, i) == IF Len(p) = 0 THEN i ELSE IF i >= Len(p) THEN 0 ELSE i

current(p, i) == IF Len(p) = 0 THEN NullKey ELSE p[CurrentIndex(p, i) + 1]

\* variant: the cursor moves on by one after a key is removed
markInvalidAdvancing(p, i, key) ==
    LET sanitized == sanitizeKey(key)
        position == IndexOf(p, sanitized)
    IN  IF position = -1
        THEN [pool |-> p, index |-> CurrentIndex(p, i), key |-> current(p, i)]
        ELSE LET p2 == RemoveAt(p, position)
             IN  IF Len(p2) = 0
                 THEN [pool |-> p2, index |-> i, key |-> NullKey]
                 ELSE [pool |-> p2, index |-> CurrentIndex(p2, i + 1),
                       key |-> current(p2, i + 1)]

\* markInvalid: the pool, the cursor and the returned key
markInvalid(p, i, key) ==
    LET sanitized == sanitizeKey(key)
        position == IndexOf(p, sanitized)
    IN  IF position = -1
        THEN [pool |-> p, index |-> CurrentIndex(p, i), key |-> current(p, i)]
        ELSE LET p2 == RemoveAt(p, position)
             IN  IF Len(p2) = 0
                 THEN [pool |-> p2, index |-> i, key |-> NullKey]
                 ELSE LET i2 == IF position <= i THEN i % Len(p2) ELSE i
                      IN  [pool |-> p2, index |-> CurrentIndex(p2, i2),
                           key |-> current(p2, i2)]

-----------------------------------------------------------------------------
(* What one fetch() can do *)

SysErr(message, code) == [message |-> message, name |-> "Error", code |-> code, cause |-> NoErr]

\* undici: TypeError('fetch failed', { cause })
FetchFailed(cause) ==
    [message |-> <<"fetch", "failed">>, name |-> "TypeError", code |-> "", cause |-> cause]

DnsError == SysErr(<<"getaddrinfo", "ENOTFOUND", "host">>, "ENOTFOUND")

\* AbortSignal.timeout(timeout) firing
TimeoutError ==
    [message |-> <<"The", "operation", "was", "aborted", "due", "to", "timeout">>,
     name |-> "TimeoutError", code |-> "", cause |-> NoErr]

CertError == SysErr(<<"certificate", "has", "expired">>, "CERT_HAS_EXPIRED")

TransportErrors == {FetchFailed(DnsError), TimeoutError, FetchFailed(CertError)}

Statuses == {401, 403, 404, 503}

\* response bodies of failed requests (all shorter than 120 characters)
Details == {<<>>, <<"Service", "temporarily", "unavailable">>}

\* bodies of 2xx responses: not JSON, JSON without content, and JSON whose
\* content is one of the contents parseStructuredResponse knows
OkBodies == {"unreadable", "nocontent", "garbage", "good"}

-----------------------------------------------------------------------------
(* createLongcatClient: helpers of post() *)

isRetryableFetchError(error) ==
    LET cause == CauseOrSelf(error)
        code == cause.code
        message == Lower(JoinMessages(error.message, cause.message))
    IN  \/ code # "" /\ code \in RETRYABLE_CAUSE_CODES
        \/ error.name = "AbortError" \/ cause.name = "AbortError"
        \/ Includes(message, <<"timeout">>)
        \/ Includes(message, <<"temporarily">>)
        \/ Includes(message, <<"socket">>)

formatFetchError(error) ==
    LET cause == error.cause
        hasCause == IsErr(cause)
    IN  IF error.message = <<>> /\ ~hasCause THEN <<"unknown", "error">>
        ELSE error.message
             \o (IF hasCause /\ cause.code # ""
                 THEN <<"|", "code=">> \o CodeTokens(cause.code) ELSE <<>>)
             \o (IF hasCause /\ cause.message # <<>> /\ cause.message # error.message
                 THEN <<"|">> \o cause.message ELSE <<>>)

backoffMs(n) == 300 * n

\* variant: the budget ends one attempt later
AttemptsExhaustedLate(n) == n = MAX_ATTEMPTS + 1

\* attempt === MAX_ATTEMPTS
AttemptsExhausted(n) == n = MAX_ATTEMPTS

\* the class of a failed fetch(), kept as history of the invocation
TransportClass(error) ==
    IF ~isRetryableFetchError(error) THEN "other"
    ELSE IF CauseOrSelf(error).code = "ENOTFOUND" THEN "dns" ELSE "transient"

\* `Longcat request failed (${status}): ${detail.slice(0, 200) || 'no details'}`
StatusError(status, detail) ==
    Err(<<"Longcat", "request", "failed", "(", ToString(status), "):">>
        \o (IF detail = <<>> THEN <<"no", "details">> ELSE detail), NoErr)

AllRejectedMessage ==
    <<"All", "Longcat", "API", "keys", "were", "rejected", "by", "the", "server">>

JsonSyntaxError ==
    [message |-> <<"Unexpected", "token">>, name |-> "SyntaxError", code |-> "",
     cause |-> NoErr]

NoResult == [kind |-> "none", error |-> NoErr, data |-> ""]

Raise(e) == [kind |-> "raise", error |-> e, data |-> ""]

Return(d) == [kind |-> "return", error |-> NoErr, data |-> d]

\* variant: the error always names the exhaustion of the keys
NoKeysErrorExhausted(last) ==
    Err(<<"Longcat", "request", "failed", "after", "exhausting", "all", "API", "keys", ":">>
        \o (IF IsErr(last) THEN last.message ELSE <<>>), last)

\* the error of lines 96-101, raised when current() yields no key
NoKeysError(last) ==
    Err(IF IsErr(last) /\ last.message # <<>>
        THEN <<"Longcat", "request", "failed", "after", "exhausting", "all", "API",
               "keys", ":">> \o last.message
        ELSE <<"Longcat", "request", "failed", ":", "no", "API", "keys", "available">>,
        last)

\* Boolean(resolveProxy(options.proxy)): no proxy is configured
proxyConfigured == FALSE

FetchErrorPrefix(proxy) ==
    IF proxy THEN <<"Longcat", "request", "failed", "(", "check", "proxy", "settings", ")">>
    ELSE <<"Longcat", "request", "failed">>

UnreadableBodyMessage ==
    <<"Longcat", "returned", "an", "unreadable", "response", "body">>

-----------------------------------------------------------------------------
(* Strings of document text are run-length encoded: a string is a sequence *)
(* of runs [c, n], n >= 1 copies of the character c, adjacent runs having  *)
(* different characters.  The encoding is exact, so String.length and      *)
(* slice() keep their meaning on texts of thousands of characters.         *)

Run(c, n) == [c |-> c, n |-> n]

EmptyStr == <<>>

Front(s) == SubSeq(s, 1, Len(s) - 1)

\* String.length (computed by halves to keep the evaluation shallow)
RECURSIVE StrLen(_)
StrLen(s) ==
    IF s = <<>> THEN 0
    ELSE IF Len(s) = 1 THEN s[1].n
    ELSE StrLen(SubSeq(s, 1, Len(s) \div 2)) + StrLen(SubSeq(s, (Len(s) \div 2) + 1, Len(s)))

\* a + b for two strings in canonical form
Concat(a, b) ==
    IF a = <<>> THEN b
    ELSE IF b = <<>> THEN a
    ELSE IF a[Len(a)].c = b[1].c
         THEN Front(a) \o <<Run(b[1].c, a[Len(a)].n + b[1].n)>> \o Tail(b)
         ELSE a \o b

\* merge adjacent runs of one character and drop empty runs
RECURSIVE Canon(_)
Canon(s) ==
    IF s = <<>> THEN <<>>
    ELSE IF Len(s) = 1 THEN (IF s[1].n = 0 THEN <<>> ELSE s)
    ELSE Concat(Canon(SubSeq(s, 1, Len(s) \div 2)),
                Canon(SubSeq(s, (Len(s) \div 2) + 1, Len(s))))

\* the length of the first i runs
PrefixLen(s, i) == StrLen(SubSeq(s, 1, i))

\* the number of whole runs within the first k characters
WholeRuns(s, k) == Cardinality({i \in 1..Len(s) : PrefixLen(s, i) <= k})

\* the characters \s matches
WhiteSpace == {" ", "\n", "\t", "\r"}

RECURSIVE TrimLeft(_)
TrimLeft(s) == IF s # <<>> /\ Head(s).c \in WhiteSpace THEN TrimLeft(Tail(s)) ELSE s

RECURSIVE TrimRight(_)
TrimRight(s) ==
    IF s # <<>> /\ s[Len(s)].c \in WhiteSpace
    THEN TrimRight(SubSeq(s, 1, Len(s) - 1)) ELSE s

\* String.prototype.trim
Trim(s) == TrimRight(TrimLeft(s))

\* the string made of the given characters
Lit(chars) == Canon([i \in 1..Len(chars) |-> Run(chars[i], 1)])

\* String.prototype.slice(0, k)
Take(s, k) ==
    LET upTo(m, rest) ==
            IF k <= 0 THEN <<>>
            ELSE IF m = Len(s) \/ rest = 0 THEN SubSeq(s, 1, m)
            ELSE SubSeq(s, 1, m) \o <<Run(s[m + 1].c, rest)>>
        whole(m) == upTo(m, k - PrefixLen(s, m))
    IN  whole(WholeRuns(s, k))

\* String.prototype.lastIndexOf(c), 0-based, -1 when absent
LastIndexOf(s, c) ==
    LET last(at) ==
            IF at = {} THEN -1
            ELSE PrefixLen(s, CHOOSE i \in at : \A j \in at : j <= i) - 1
    IN  last({i \in 1..Len(s) : s[i].c = c})

\* ASCII_REPLACEMENTS; a character outside ASCII is named by its code point:
\* U2022 bullet, U2014 em dash, U2019 right single quote, U4E2D a CJK
\* ideograph, U1F600 an emoji, U200D zero width joiner
AsciiReplacement(c) ==
    CASE c = "U2022" -> "-"
      [] c = "U2014" -> "-"
      [] c = "U2019" -> "'"
      [] OTHER -> c

\* characters toAscii drops: code above 126 and no replacement
NonAscii == {"U4E2D", "U1F600", "U200D"}

\* characters matched by \p{Extended_Pictographic}
Pictographic == {"U1F600"}

toAscii(input) ==
    LET run(c, n) ==
            IF c \in {"\n", "\r", "\t"} THEN Run(" ", n)
            ELSE IF c \in NonAscii THEN Run(c, 0)
            ELSE Run(c, n)
    IN  Canon([i \in 1..Len(input) |-> run(AsciiReplacement(input[i].c), input[i].n)])

\* String(value || '').replace(/\s+/g, ' ').trim()
collapseWhitespace(value) ==
    LET single(spaced) ==
            Trim([i \in 1..Len(spaced) |->
                     IF spaced[i].c = " " THEN Run(" ", 1) ELSE spaced[i]])
    IN  single(Canon([i \in 1..Len(value) |->
                   IF value[i].c \in WhiteSpace THEN Run(" ", value[i].n) ELSE value[i]]))

truncateSummaryText(t, maxChars) ==
    LET cut(slice, lastSpace) ==
            IF lastSpace > (maxChars \div 2) THEN Trim(Take(slice, lastSpace))
            ELSE Trim(slice)
        sliced(slice) == cut(slice, LastIndexOf(slice, " "))
        truncated(ascii) ==
            IF ascii = EmptyStr THEN EmptyStr
            ELSE IF StrLen(ascii) <= maxChars THEN ascii
            ELSE sliced(Take(ascii, maxChars))
    IN  truncated(collapseWhitespace(toAscii(t)))

\* split(/(?<=[.!?])\s+/): the pieces between white space that follows . ! ?
\* the elements of a set of integers in increasing order
SortedSeq(S) == [k \in 1..Cardinality(S) |-> CHOOSE x \in S : Cardinality({y \in S : y <= x}) = k]

\* the pieces of s between the runs whose positions are in cuts
SplitAt(s, cuts) ==
    LET b == <<0>> \o SortedSeq(cuts) \o <<Len(s) + 1>>
    IN  [k \in 1..(Len(b) - 1) |-> SubSeq(s, b[k] + 1, b[k + 1] - 1)]

SplitAfterStops(s) ==
    SplitAt(s, {i \in 2..Len(s) : s[i].c \in WhiteSpace /\ s[i - 1].c \in {".", "!", "?"}})

\* split(c) for a single character c
RECURSIVE SplitOnChar(_, _, _)
SplitOnChar(s, c, cur) ==
    IF s = <<>> THEN <<cur>>
    ELSE IF Head(s).c = c
         THEN <<cur>> \o [i \in 1..(Head(s).n - 1) |-> <<>>] \o SplitOnChar(Tail(s), c, <<>>)
         ELSE SplitOnChar(Tail(s), c, cur \o <<Head(s)>>)

\* .map((x) => x.trim()).filter(Boolean)
TrimAll(pieces) ==
    SelectSeq([i \in 1..Len(pieces) |-> Trim(pieces[i])], LAMBDA x : x # EmptyStr)

splitIntoSentences(t) ==
    LET pick(normalized, sentences) ==
            IF normalized = EmptyStr THEN <<>>
            ELSE IF Len(sentences) > 0 THEN sentences
            ELSE TrimAll(SplitOnChar(normalized, ";", <<>>))
        split(normalized) == pick(normalized, TrimAll(SplitAfterStops(normalized)))
    IN  split(collapseWhitespace(toAscii(t)))

\* Array.prototype.map
Map(list, F(_)) == [i \in 1..Len(list) |-> F(list[i])]

\* const name = value; followed by the statements Rest: the value is computed
\* once, before the statements run
With(value, Rest(_)) == CHOOSE result \in {Rest(name) : name \in {value}} : TRUE

\* Array.prototype.slice(0, k)
FirstN(list, k) == SubSeq(list, 1, IF Len(list) < k THEN Len(list) ELSE k)

\* Array.prototype.join(sep)
RECURSIVE Join(_, _)
Join(list, sep) ==
    IF list = <<>> THEN EmptyStr
    ELSE IF Len(list) = 1 THEN list[1]
    ELSE Concat(Concat(list[1], sep), Join(Tail(list), sep))

\* first-seen-order de-duplication (Array.from(new Set(list)))
RECURSIVE Dedupe(_)
Dedupe(list) ==
    IF list = <<>> THEN <<>>
    ELSE LET front == Dedupe(Front(list))
         IN  IF list[Len(list)] \in Range(front) THEN front
             ELSE Append(front, list[Len(list)])

paragraphHighlights(paragraph) ==
    FirstN(SelectSeq(Map(splitIntoSentences(paragraph),
                         LAMBDA sentence : truncateSummaryText(sentence, 110)),
                     LAMBDA x : x # EmptyStr), 4)

RECURSIVE StripLeading(_, _)
StripLeading(s, chars) ==
    IF s # <<>> /\ Head(s).c \in chars THEN StripLeading(Tail(s), chars) ELSE s

\* line.replace(/^[*\-\u2022]+\s*/, '').trim()
cleanBulletLine(line) == Trim(StripLeading(line, {"*", "-", "U2022"}))

\* text.replace(/^[\p{Extended_Pictographic}\u200d\s]+/gu, '').trim()
stripEmojiPrefix(t) == Trim(StripLeading(t, Pictographic \cup {"U200D"} \cup WhiteSpace))

\* .replace(/\*/g, '')
RemoveChar(s, c) == Canon([i \in 1..Len(s) |-> IF s[i].c = c THEN Run(c, 0) ELSE s[i]])

SectionLabel(n) == Lit(<<"S", "e", "c", "t", "i", "o", "n", " ">> \o <<ToString(n)>>)

SUMMARY_PARAGRAPH_PLACEHOLDER == Lit(<<"S", "u", "m", "m", "a", "r", "y", " ", "f", "o", "r", "t", "h", "c", "o", "m", "i", "n", "g", ".">>)

BULLET_FILLER_STRINGS == <<Lit(<<"A", "d", "d", " ", "k", "e", "y", " ", "d", "e", "t", "a", "i", "l", " ", "d", "r", "a", "w", "n", " ", "f", "r", "o", "m", " ", "t", "h", "e", " ", "s", "o", "u", "r", "c", "e", " ", "m", "a", "t", "e", "r", "i", "a", "l", ".">>), Lit(<<"H", "i", "g", "h", "l", "i", "g", "h", "t", " ", "a", " ", "c", "o", "n", "c", "r", "e", "t", "e", " ", "d", "e", "t", "a", "i", "l", " ", "f", "r", "o", "m", " ", "t", "h", "e", " ", "d", "o", "c", "u", "m", "e", "n", "t", ".">>)>>

GeneratedSummary == Lit(<<"G", "e", "n", "e", "r", "a", "t", "e", "d", " ", "S", "u", "m", "m", "a", "r", "y">>)

\* for (const highlight of highlights) { if (cleaned.length >= 4) break; ... }
RECURSIVE AddHighlights(_, _)
AddHighlights(cleaned, highlights) ==
    IF highlights = <<>> \/ Len(cleaned) >= 4 THEN cleaned
    ELSE AddHighlights(IF Head(highlights) \in Range(cleaned) THEN cleaned
                       ELSE Append(cleaned, Head(highlights)),
                       Tail(highlights))

\* while (cleaned.length < 2) cleaned.push(FILLERS[cleaned.length % FILLERS.length])
RECURSIVE PadWithFillers(_)
PadWithFillers(cleaned) ==
    LET filler(FILLERS) == FILLERS[(Len(cleaned) % Len(FILLERS)) + 1]
    IN  IF Len(cleaned) >= 2 THEN cleaned
        ELSE PadWithFillers(Append(cleaned, filler(BULLET_FILLER_STRINGS)))

normalizeHeadline(headline, idx) ==
    LET orFallback(truncated, fallback) ==
            IF truncated # EmptyStr THEN truncated ELSE fallback
        pick(ascii, truncated, fallback) ==
            IF headline = EmptyStr THEN fallback
            ELSE IF ascii = EmptyStr THEN fallback
            ELSE orFallback(truncated, fallback)
    IN  With(collapseWhitespace(toAscii(
                 Trim(RemoveChar(stripEmojiPrefix(cleanBulletLine(headline)), "*")))),
             LAMBDA ascii : pick(ascii, truncateSummaryText(ascii, 64),
                                 SectionLabel(idx + 1)))

\* bulletFallback.map(cleanBulletLine).filter(Boolean)
CleanBullets(list) == SelectSeq(Map(list, cleanBulletLine), LAMBDA x : x # EmptyStr)

normalizeParagraph(paragraph, bulletFallback) ==
    LET pick(cleaned, fallback, truncated) ==
            IF cleaned = EmptyStr /\ Trim(fallback) = EmptyStr
            THEN SUMMARY_PARAGRAPH_PLACEHOLDER ELSE truncated
        source(cleaned, fallback) == IF cleaned # EmptyStr THEN cleaned ELSE fallback
    IN  With(<<collapseWhitespace(paragraph),
               Join(CleanBullets(bulletFallback), Lit(<<" ">>))>>,
             LAMBDA texts : pick(texts[1], texts[2],
                                 truncateSummaryText(source(texts[1], texts[2]), 420)))

normalizeBullets(input, paragraph) ==
    FirstN(PadWithFillers(
               AddHighlights(Dedupe(Map(CleanBullets(input),
                                        LAMBDA value : truncateSummaryText(value, 110))),
                             paragraphHighlights(paragraph))), 4)

-----------------------------------------------------------------------------
(* The orchestrator: statistics, heuristic summarizer, schema, fallback *)

NullChart == [type |-> "null"]

Slide(headline, paragraph, bullets, chart) ==
    [headline |-> headline, paragraph |-> paragraph, bullets |-> bullets, chart |-> chart]

\* split(/\n{2,}/): the pieces between runs of two or more newlines
RECURSIVE SplitOnBlankLines(_, _)
SplitOnBlankLines(s, cur) ==
    IF s = <<>> THEN <<cur>>
    ELSE IF Head(s).c = "\n" /\ Head(s).n >= 2
         THEN <<cur>> \o SplitOnBlankLines(Tail(s), <<>>)
         ELSE SplitOnBlankLines(Tail(s), cur \o <<Head(s)>>)

countSections(t) ==
    LET pieces == SplitOnBlankLines(t, <<>>)
        sections == SelectSeq([i \in 1..Len(pieces) |-> Trim(pieces[i])],
                              LAMBDA x : StrLen(x) >= 120)
        unique == Cardinality({Take(sections[i], 80) : i \in 1..Len(sections)})
        floor == IF Len(sections) > 0 THEN 1 ELSE 0
    IN  IF unique > floor THEN unique ELSE floor

Min(a, b) == IF a < b THEN a ELSE b

Max(a, b) == IF a > b THEN a ELSE b

\* the threshold table without the floor of 6 slides for 5 sections and more
SlideCountForUnraised(charCount, uniqueSections) ==
    IF charCount < 1200 /\ uniqueSections <= 1 THEN 2
    ELSE IF charCount < 2600 /\ uniqueSections <= 2 THEN 3
    ELSE IF charCount < 4200 THEN 4
    ELSE IF charCount < 6200 THEN 5
    ELSE IF charCount < 8800 THEN 6
    ELSE IF charCount < 11500 \/ uniqueSections >= 6 THEN 7
    ELSE 8

\* the threshold table of determineSlideCount
SlideCountFor(charCount, uniqueSections) ==
    LET byTable ==
            IF charCount < 1200 /\ uniqueSections <= 1 THEN 2
            ELSE IF charCount < 2600 /\ uniqueSections <= 2 THEN 3
            ELSE IF charCount < 4200 THEN 4
            ELSE IF charCount < 6200 THEN 5
            ELSE IF charCount < 8800 THEN 6
            ELSE IF charCount < 11500 \/ uniqueSections >= 6 THEN 7
            ELSE 8
        raised == IF uniqueSections >= 5 /\ byTable < 6
                  THEN Min(8, Max(byTable, 6)) ELSE byTable
    IN  Min(8, Max(2, raised))

determineSlideCount(t) ==
    LET stats(charCount, uniqueSections) ==
            [slideCount |-> SlideCountFor(charCount, uniqueSections),
             charCount |-> charCount,
             uniqueSections |-> uniqueSections]
    IN  stats(StrLen(t), countSections(t))

\* String.prototype.replace(/\r\n/g, '\n')
RECURSIVE ReplaceCRLF(_)
ReplaceCRLF(s) ==
    IF Len(s) < 2 THEN s
    ELSE IF s[1].c = "\r" /\ s[2].c = "\n"
         THEN Canon(<<Run("\r", s[1].n - 1)>> \o ReplaceCRLF(Tail(s)))
         ELSE <<s[1]>> \o ReplaceCRLF(Tail(s))

\* the characters [a-z0-9] matches with the i flag
AlphaNumeric ==
    {"a", "b", "c", "d", "e", "f", "g", "h", "i", "j", "k", "l", "m", "n", "o", "p", "q",
     "r", "s", "t", "u", "v", "w", "x", "y", "z",
     "A", "B", "C", "D", "E", "F", "G", "H", "I", "J", "K", "L", "M", "N", "O", "P", "Q",
     "R", "S", "T", "U", "V", "W", "X", "Y", "Z",
     "0", "1", "2", "3", "4", "5", "6", "7", "8", "9"}

\* String.prototype.toUpperCase on one character
UpperChar(c) ==
    CASE c = "a" -> "A" [] c = "b" -> "B" [] c = "c" -> "C" [] c = "d" -> "D"
      [] c = "e" -> "E" [] c = "f" -> "F" [] c = "g" -> "G" [] c = "h" -> "H"
      [] c = "i" -> "I" [] c = "j" -> "J" [] c = "k" -> "K" [] c = "l" -> "L"
      [] c = "m" -> "M" [] c = "n" -> "N" [] c = "o" -> "O" [] c = "p" -> "P"
      [] c = "q" -> "Q" [] c = "r" -> "R" [] c = "s" -> "S" [] c = "t" -> "T"
      [] c = "u" -> "U" [] c = "v" -> "V" [] c = "w" -> "W" [] c = "x" -> "X"
      [] c = "y" -> "Y" [] c = "z" -> "Z" [] OTHER -> c

RECURSIVE StripLeadingNot(_, _)
StripLeadingNot(s, chars) ==
    IF s # <<>> /\ Head(s).c \notin chars THEN StripLeadingNot(Tail(s), chars) ELSE s

\* trimmed.charAt(0).toUpperCase() + trimmed.slice(1)
Capitalize(s) ==
    IF s = <<>> THEN s
    ELSE Canon(<<Run(UpperChar(s[1].c), 1), Run(s[1].c, s[1].n - 1)>> \o Tail(s))

heuristicHeadline(source, idx) ==
    LET pick(cleaned, trimmed, fallback) ==
            IF cleaned = EmptyStr THEN fallback
            ELSE IF trimmed = EmptyStr THEN fallback
            ELSE truncateSummaryText(Capitalize(trimmed), 70)
    IN  With(cleanBulletLine(source),
             LAMBDA cleaned : pick(cleaned, Trim(StripLeadingNot(cleaned, AlphaNumeric)),
                                   SectionLabel(idx + 1)))

heuristicDocTitle(source) ==
    With(cleanBulletLine(source),
         LAMBDA cleaned : IF cleaned = EmptyStr THEN GeneratedSummary
                          ELSE truncateSummaryText(cleaned, 120))

buildFallbackSlides(seed) ==
    LET pair(paragraph, bullets) ==
            << Slide(SectionLabel(1), paragraph, bullets, NullChart),
               Slide(SectionLabel(2), paragraph, bullets, NullChart) >>
    IN  With(normalizeParagraph(seed, <<>>),
             LAMBDA paragraph : pair(paragraph, normalizeBullets(<<>>, paragraph)))

NoReadableContent == Lit(<<"N", "o", " ", "r", "e", "a", "d", "a", "b", "l", "e", " ", "c", "o", "n", "t", "e", "n", "t", " ", "f", "o", "u", "n", "d", " ", "i", "n", " ", "d", "o", "c", "u", "m", "e", "n", "t", ".">>)

\* Math.ceil(a / b) for b > 0
CeilDiv(a, b) == (a + b - 1) \div b

\* variant: every chunk starts at the last sentence of the chunk before it
ChunkSlideOverlapping(sentences, chunkSize, idx) ==
    With(truncateSummaryText(
             Join(SubSeq(sentences, Max(1, idx * chunkSize),
                         Min(Len(sentences), (idx + 1) * chunkSize)), Lit(<<" ">>)), 420),
         LAMBDA paragraph :
             Slide(heuristicHeadline(paragraph, idx), paragraph,
                   FirstN(paragraphHighlights(paragraph), 4), NullChart))

\* the slide made from the index-th chunk of sentences (index is 0-based)
ChunkSlide(sentences, chunkSize, idx) ==
    With(truncateSummaryText(
             Join(SubSeq(sentences, idx * chunkSize + 1,
                         Min(Len(sentences), (idx + 1) * chunkSize)), Lit(<<" ">>)), 420),
         LAMBDA paragraph :
             Slide(heuristicHeadline(paragraph, idx), paragraph,
                   FirstN(paragraphHighlights(paragraph), 4), NullChart))

buildHeuristicSummary(t, stats) ==
    LET targetSections == Min(Max(stats.slideCount, 2), 8)
        \* the indexes i < targetSections whose chunk is not empty
        used(sentences, chunkSize) ==
            {i \in 0..(targetSections - 1) : i * chunkSize + 1 <= Len(sentences)}
        \* the three return statements: the title source, the slides
        summary(cleaned, slides, titleOf(_), fallbackSlidesOf(_)) ==
            IF cleaned = EmptyStr
            THEN [docTitle |-> GeneratedSummary,
                  slides |-> fallbackSlidesOf(NoReadableContent)]
            ELSE IF Len(slides) = 0
            THEN [docTitle |-> titleOf(cleaned),
                  slides |-> fallbackSlidesOf(Take(cleaned, 200))]
            ELSE [docTitle |-> titleOf(IF slides[1].headline # EmptyStr
                                       THEN slides[1].headline ELSE cleaned),
                  slides |-> FirstN(slides, targetSections)]
    IN  With(Trim(ReplaceCRLF(t)), LAMBDA cleaned :
        With(splitIntoSentences(cleaned), LAMBDA sentences :
        With(Max(1, CeilDiv(Len(sentences), targetSections)), LAMBDA chunkSize :
             summary(cleaned,
                     [k \in 1..Cardinality(used(sentences, chunkSize)) |->
                         ChunkSlide(sentences, chunkSize, k - 1)],
                     heuristicDocTitle, buildFallbackSlides))))

\* SummarySchema.safeParse(doc).success
SchemaAccepts(doc) ==
    LET seriesOk(entry) ==
            DOMAIN entry = {"label", "values"} /\ Len(entry.values) >= 1
        chartOk(chart) ==
            \/ chart = NullChart
            \/ /\ DOMAIN chart = {"type", "categories", "series"}
               /\ chart.type \in {"bar", "line", "pie"}
               /\ Len(chart.categories) >= 1
               /\ Len(chart.series) >= 1
               /\ \A k \in 1..Len(chart.series) : seriesOk(chart.series[k])
    IN  /\ "slides" \in DOMAIN doc
        /\ StrLen(doc.docTitle) >= 1
        /\ Len(doc.slides) >= 2
        /\ Len(doc.slides) <= 8
        /\ \A i \in 1..Len(doc.slides) :
              /\ StrLen(doc.slides[i].paragraph) >= 1
              /\ Len(doc.slides[i].bullets) >= 2
              /\ Len(doc.slides[i].bullets) <= 4
              /\ chartOk(doc.slides[i].chart)

\* normalizeChart without the test that drops a chart left without categories or
\* series
normalizeChartNeverDropped(input) ==
    LET lowerType(type) ==
            CASE type = "BAR" -> "bar" [] type = "Line" -> "line"
              [] type = "PIE" -> "pie" [] OTHER -> type
        Number(value) == IF "text" \in DOMAIN value THEN [num |-> value.text] ELSE value
        isFinite(value) == "num" \in DOMAIN value
        numbers(list) == SelectSeq([i \in 1..Len(list) |-> Number(list[i])], isFinite)
        nonBlank(value) == Trim(value) # EmptyStr
        labelled(label, values) ==
            IF label = EmptyStr \/ values = <<>> THEN NullChart
            ELSE [label |-> label, values |-> FirstN(values, 20)]
        entryOf(entry) ==
            IF "values" \notin DOMAIN entry THEN NullChart
            ELSE labelled(Trim(entry.label), numbers(entry.values))
        isEntry(entry) == entry # NullChart
        orSeriesOne(label) ==
            IF label # EmptyStr THEN label
            ELSE Lit(<<"S", "e", "r", "i", "e", "s", " ", "1">>)
        seriesOf(list, numericSeries) ==
            IF Len(numericSeries) = Len(list) /\ Len(numericSeries) > 0
            THEN << [label |-> orSeriesOne(collapseWhitespace(toAscii(input.label))),
                     values |-> FirstN(numericSeries, 20)] >>
            ELSE FirstN(SelectSeq([i \in 1..Len(list) |-> entryOf(list[i])], isEntry), 6)
        chart(type, categories, series) ==
            [type |-> type, categories |-> categories, series |-> series]
    IN  IF input = NullChart THEN NullChart
        ELSE IF lowerType(input.type) \notin {"bar", "line", "pie"} THEN NullChart
        ELSE chart(lowerType(input.type),
                   FirstN(SelectSeq(input.categories, nonBlank), 20),
                   seriesOf(input.series, numbers(input.series)))

\* A chart value is NullChart (null or not an object) or a record with the
\* fields type, categories, series and label.  A JSON value inside series or
\* values is [num |-> n] for the finite number n, [text |-> n] for the string
\* that spells n, [nan |-> TRUE] for a value Number() does not make finite, and
\* a record with the fields label and values for an object entry.
normalizeChart(input) ==
    LET lowerType(type) ==
            CASE type = "BAR" -> "bar" [] type = "Line" -> "line"
              [] type = "PIE" -> "pie" [] OTHER -> type
        Number(value) == IF "text" \in DOMAIN value THEN [num |-> value.text] ELSE value
        isFinite(value) == "num" \in DOMAIN value
        numbers(list) == SelectSeq([i \in 1..Len(list) |-> Number(list[i])], isFinite)
        nonBlank(value) == Trim(value) # EmptyStr
        labelled(label, values) ==
            IF label = EmptyStr \/ values = <<>> THEN NullChart
            ELSE [label |-> label, values |-> FirstN(values, 20)]
        entryOf(entry) ==
            IF "values" \notin DOMAIN entry THEN NullChart
            ELSE labelled(Trim(entry.label), numbers(entry.values))
        isEntry(entry) == entry # NullChart
        orSeriesOne(label) ==
            IF label # EmptyStr THEN label
            ELSE Lit(<<"S", "e", "r", "i", "e", "s", " ", "1">>)
        seriesOf(list, numericSeries) ==
            IF Len(numericSeries) = Len(list) /\ Len(numericSeries) > 0
            THEN << [label |-> orSeriesOne(collapseWhitespace(toAscii(input.label))),
                     values |-> FirstN(numericSeries, 20)] >>
            ELSE FirstN(SelectSeq([i \in 1..Len(list) |-> entryOf(list[i])], isEntry), 6)
        chart(type, categories, series) ==
            IF categories = <<>> \/ series = <<>> THEN NullChart
            ELSE [type |-> type, categories |-> categories, series |-> series]
    IN  IF input = NullChart THEN NullChart
        ELSE IF lowerType(input.type) \notin {"bar", "line", "pie"} THEN NullChart
        ELSE chart(lowerType(input.type),
                   FirstN(SelectSeq(input.categories, nonBlank), 20),
                   seriesOf(input.series, numbers(input.series)))

\* A parsed response is a record: [scalar |-> ..] for a JSON number, string or
\* boolean, [array |-> ..] for a JSON array, and otherwise an object that holds
\* the fields it names.
deriveDocTitle(data, slides) ==
    LET field(name) == IF name \in DOMAIN data THEN <<data[name]>> ELSE <<>>
        candidates == field("docTitle") \o field("title") \o field("subject")
                      \o field("topic") \o field("headline")
                      \o (IF Len(slides) > 0 THEN <<slides[1].headline>> ELSE <<>>)
    IN  With(SelectSeq(Map(candidates, LAMBDA candidate : collapseWhitespace(toAscii(candidate))),
                       LAMBDA x : x # EmptyStr),
             LAMBDA cleaned : IF Len(cleaned) > 0 THEN truncateSummaryText(cleaned[1], 120)
                              ELSE GeneratedSummary)

\* the slide both normalizeStructuredResponse and the final mapping make of a
\* source slide whose headline text has been chosen
NormalizedSlide(safeSlide, headlineText, idx) ==
    With(normalizeParagraph(safeSlide.paragraph, safeSlide.bullets),
         LAMBDA paragraph :
             Slide(normalizeHeadline(headlineText, idx), paragraph,
                   normalizeBullets(safeSlide.bullets, paragraph),
                   normalizeChart(safeSlide.chart)))

normalizeStructuredResponse(data) ==
    LET nonBlank(value) == Trim(value) # EmptyStr
        isSlideLike(candidate) ==
            /\ {"headline", "paragraph", "bullets"} \subseteq DOMAIN candidate
            /\ nonBlank(candidate.headline)
            /\ nonBlank(candidate.paragraph)
               \/ SelectSeq(candidate.bullets, nonBlank) # <<>>
        extractSlideCandidates ==
            IF "slides" \in DOMAIN data THEN data.slides
            ELSE IF "sections" \in DOMAIN data THEN data.sections
            ELSE IF isSlideLike(data) THEN <<data>>
            ELSE <<>>
        headlineText(safeSlide, idx) ==
            IF Trim(safeSlide.headline) # EmptyStr
            THEN Trim(safeSlide.headline) ELSE SectionLabel(idx + 1)
        \* while (normalizedSlides.length < 2): the slide pushed at index i is
        \* the one the map makes of a slide without headline, paragraph,
        \* bullets and chart
        atLeastTwo(list) ==
            [i \in 1..Max(Len(list), 2) |->
                IF i <= Len(list) THEN list[i]
                ELSE Slide(EmptyStr, EmptyStr, <<>>, NullChart)]
    IN  IF "scalar" \in DOMAIN data THEN data
        ELSE With(atLeastTwo(FirstN(extractSlideCandidates, 8)), LAMBDA slideCandidates :
             With([i \in 1..Len(slideCandidates) |->
                      NormalizedSlide(slideCandidates[i],
                                      headlineText(slideCandidates[i], i - 1), i - 1)],
                  LAMBDA normalizedSlides :
                      [docTitle |-> deriveDocTitle(data, normalizedSlides),
                       slides |-> normalizedSlides]))

NETWORK_ERROR_CODES ==
    {"UND_ERR_CONNECT_TIMEOUT", "UND_ERR_HEADERS_TIMEOUT", "UND_ERR_SOCKET",
     "UND_ERR_BODY_TIMEOUT", "ECONNRESET", "ETIMEDOUT", "EHOSTUNREACH", "ENOTFOUND",
     "EAI_AGAIN"}

\* variant: only the error code of the cause is looked at
isLikelyNetworkErrorByCode(error) ==
    LET cause == CauseOrSelf(error)
    IN  cause.code # "" /\ cause.code \in NETWORK_ERROR_CODES

isLikelyNetworkError(error) ==
    LET cause == CauseOrSelf(error)
        message == Lower(JoinMessages(error.message, cause.message))
    IN  \/ cause.code # "" /\ cause.code \in NETWORK_ERROR_CODES
        \/ Includes(message, <<"fetch", "failed">>)
        \/ Includes(message, <<"timeout">>)
        \/ Includes(message, <<"temporarily">>)

HeuristicWarning == "Longcat request failed; generated heuristic summary instead."

\* the slide both summarizeToSlides and tryHeuristicFallback emit for a source slide
FinalSlide(sourceSlide, idx) == NormalizedSlide(sourceSlide, sourceSlide.headline, idx)

\* tryHeuristicFallback once the error has been classified as network-like;
\* summary is buildHeuristicSummary(text, stats) and normalized is
\* normalizeStructuredResponse(summary)
HeuristicDeck(stats, summary, normalized) ==
    LET desiredCount == Min(Max(stats.slideCount, 2), 8)
        result(safe, normalizedSlides) ==
            Return([docTitle |-> safe.docTitle,
                    slides |-> normalizedSlides,
                    stats |-> [slideCount |-> stats.slideCount,
                               charCount |-> stats.charCount,
                               uniqueSections |-> stats.uniqueSections,
                               plannedSections |-> Len(normalizedSlides),
                               targetSections |-> desiredCount],
                    warnings |-> <<HeuristicWarning>>])
    IN  With(IF SchemaAccepts(summary) THEN summary ELSE normalized, LAMBDA safe :
             IF ~SchemaAccepts(safe) THEN Raise(Err(<<"ZodError">>, NoErr))
             ELSE With(FirstN(safe.slides, desiredCount), LAMBDA sliced :
                  With(IF Len(sliced) = 0
                       THEN buildFallbackSlides(SUMMARY_PARAGRAPH_PLACEHOLDER) ELSE sliced,
                       LAMBDA slides :
                           result(safe, [i \in 1..Len(slides) |->
                                            FinalSlide(slides[i], i - 1)]))))

\* String.prototype.toLowerCase
toLowerCase(s) ==
    LET lowerChar(c) ==
            CASE c = "A" -> "a" [] c = "B" -> "b" [] c = "C" -> "c" [] c = "D" -> "d"
              [] c = "E" -> "e" [] c = "F" -> "f" [] c = "G" -> "g" [] c = "H" -> "h"
              [] c = "I" -> "i" [] c = "J" -> "j" [] c = "K" -> "k" [] c = "L" -> "l"
              [] c = "M" -> "m" [] c = "N" -> "n" [] c = "O" -> "o" [] c = "P" -> "p"
              [] c = "Q" -> "q" [] c = "R" -> "r" [] c = "S" -> "s" [] c = "T" -> "t"
              [] c = "U" -> "u" [] c = "V" -> "v" [] c = "W" -> "w" [] c = "X" -> "x"
              [] c = "Y" -> "y" [] c = "Z" -> "z" [] OTHER -> c
    IN  Canon([i \in 1..Len(s) |-> Run(lowerChar(s[i].c), s[i].n)])

\* summarizeToSlides putting the remote document aside for the heuristic deck
RemoteDeckDiscarded(stats, structured, fallbackData) ==
    HeuristicDeck(stats, fallbackData, fallbackData)

\* a slide is a record with the fields of Slide; null is a record without them
slideHasMeaningfulContent(slide) ==
    LET placeholderKey(value) == toLowerCase(collapseWhitespace(toAscii(value)))
        forthcoming == Lit(<<"S", "u", "m", "m", "a", "r", "y", " ", "f", "o", "r", "t",
                             "h", "c", "o", "m", "i", "n", "g">>)
        isPlaceholder(key, keys) == key = EmptyStr \/ key \in Range(keys)
        isMeaningfulBullet(t) == StrLen(t) >= 12
        sum[list \in Seq(Seq([c : STRING, n : Nat]))] ==
            IF list = <<>> THEN 0 ELSE StrLen(Head(list)) + sum[Tail(list)]
        decide(paragraphLength, isParagraphPlaceholder, meaningfulBulletCount,
               totalBulletChars) ==
            \/ ~isParagraphPlaceholder /\ paragraphLength >= 80
            \/ meaningfulBulletCount >= 2 /\ totalBulletChars >= 50
            \/ /\ ~isParagraphPlaceholder
               /\ paragraphLength >= 40
               /\ (meaningfulBulletCount >= 1 \/ totalBulletChars >= 30)
    IN  /\ "paragraph" \in DOMAIN slide
        /\ With(Map(<<SUMMARY_PARAGRAPH_PLACEHOLDER, forthcoming>>, placeholderKey),
                LAMBDA PARAGRAPH_PLACEHOLDER_KEYS :
           With(PARAGRAPH_PLACEHOLDER_KEYS \o Map(BULLET_FILLER_STRINGS, placeholderKey),
                LAMBDA BULLET_PLACEHOLDER_KEYS :
           With(collapseWhitespace(slide.paragraph), LAMBDA paragraphText :
           With(SelectSeq(Map(slide.bullets, cleanBulletLine),
                          LAMBDA t : t # EmptyStr
                                     /\ ~isPlaceholder(placeholderKey(t),
                                                       BULLET_PLACEHOLDER_KEYS)),
                LAMBDA bulletTexts :
                    decide(StrLen(paragraphText),
                           isPlaceholder(placeholderKey(paragraphText),
                                         PARAGRAPH_PLACEHOLDER_KEYS),
                           Len(SelectSeq(bulletTexts, isMeaningfulBullet)),
                           sum[bulletTexts])))))

\* const genericTitles of isDocTitleWeak
genericTitles ==
    {Lit(<<"g", "e", "n", "e", "r", "a", "t", "e", "d", " ", "s", "u", "m", "m", "a", "r", "y">>),
     Lit(<<"s", "u", "m", "m", "a", "r", "y">>),
     Lit(<<"s", "e", "c", "t", "i", "o", "n", " ", "1">>),
     Lit(<<"s", "e", "c", "t", "i", "o", "n", " ", "o", "n", "e">>),
     Lit(<<"s", "e", "c", "t", "i", "o", "n", " ", "2">>),
     Lit(<<"s", "e", "c", "t", "i", "o", "n", " ", "t", "w", "o">>)}

\* variant: the title is compared with the generic titles as it is written
isDocTitleWeakAsWritten(title) ==
    With(collapseWhitespace(title), LAMBDA normalized :
        normalized = EmptyStr \/ normalized \in genericTitles)

\* isDocTitleWeak
isDocTitleWeak(title) ==
    With(collapseWhitespace(title), LAMBDA normalized :
        normalized = EmptyStr \/ toLowerCase(normalized) \in genericTitles)

\* variant: the slides as the remote returned them
TargetSlidesAsReturned(parsedSlides, desiredCount) == parsedSlides

\* let slides = parsed.slides.slice(0, desiredCount), pushed up to desiredCount
\* with null
TargetSlides(parsedSlides, desiredCount) ==
    With(FirstN(parsedSlides, desiredCount), LAMBDA slides :
        [i \in 1..desiredCount |-> IF i <= Len(slides) THEN slides[i] ELSE [none |-> TRUE]])

\* summarizeToSlides from the normalized remote document on (lines 299-391);
\* fallbackData is normalizeStructuredResponse(buildHeuristicSummary(text, stats))
\* fallbackSlides[index] ?? fallbackSlides[fallbackSlides.length - 1] ?? null,
\* for the position i = index + 1
pickFallbackSlide(fallbackSlides, i) ==
    IF Len(fallbackSlides) = 0 THEN NoErr
    ELSE IF i <= Len(fallbackSlides) THEN fallbackSlides[i]
    ELSE fallbackSlides[Len(fallbackSlides)]

\* variant: the heuristic deck is built at every use
ensureFallbackDataUncached(cache, t, stats) ==
    [fallbackData |-> normalizeStructuredResponse(buildHeuristicSummary(t, stats)),
     computed |-> cache.computed + 1]

\* ensureFallbackData on the closure variable fallbackData; computed counts
\* the runs of buildHeuristicSummary
ensureFallbackData(cache, t, stats) ==
    IF cache.fallbackData = NoErr
    THEN [fallbackData |-> normalizeStructuredResponse(buildHeuristicSummary(t, stats)),
          computed |-> cache.computed + 1]
    ELSE cache

\* the uses of ensureFallbackData in slides.map (lines 335-354) from position
\* i on: one in pickFallbackSlide for a slide that fails the gate, one more
\* when the slide is substituted
RECURSIVE SubstitutionLoop(_, _, _, _, _)
SubstitutionLoop(slides, i, cache, t, stats) ==
    IF i > Len(slides) THEN cache
    ELSE IF slideHasMeaningfulContent(slides[i])
    THEN SubstitutionLoop(slides, i + 1, cache, t, stats)
    ELSE With(ensureFallbackData(cache, t, stats), LAMBDA picked :
              SubstitutionLoop(
                  slides, i + 1,
                  IF slideHasMeaningfulContent(
                         pickFallbackSlide(picked.fallbackData.slides, i))
                  THEN ensureFallbackData(picked, t, stats) ELSE picked,
                  t, stats))

\* variant: a slide that fails the gate is substituted whatever its fallback
\* slide is like
replacesUnchecked(verdict) == ~verdict[1]

\* verdict holds slideHasMeaningfulContent of the slide and of its fallback
\* slide: the slide is substituted when it fails the gate and the fallback
\* slide passes it
replaces(verdict) == ~verdict[1] /\ verdict[2]

RemoteDeck(stats, structured, fallbackData) ==
    LET desiredCount == Min(Max(stats.slideCount, 2), 8)
        null == [none |-> TRUE]
        orPlaceholder(slide, idx) ==
            IF slide = null THEN Slide(SectionLabel(idx + 1), EmptyStr, <<>>, NullChart)
            ELSE slide
        summaryStats(planned, fallbackReplacements) ==
            IF fallbackReplacements > 0
            THEN [slideCount |-> stats.slideCount, charCount |-> stats.charCount,
                  uniqueSections |-> stats.uniqueSections, plannedSections |-> planned,
                  targetSections |-> desiredCount,
                  fallbackReplacements |-> fallbackReplacements]
            ELSE [slideCount |-> stats.slideCount, charCount |-> stats.charCount,
                  uniqueSections |-> stats.uniqueSections, plannedSections |-> planned,
                  targetSections |-> desiredCount]
        warnings(fallbackReplacements) ==
            IF fallbackReplacements > 0
            THEN << "Longcat returned incomplete content; substituted heuristic text for "
                    \o ToString(fallbackReplacements) \o " section"
                    \o (IF fallbackReplacements = 1 THEN "" ELSE "s") \o "." >>
            ELSE <<>>
        result(docTitle, normalizedSlides, fallbackReplacements) ==
            Return([docTitle |-> docTitle,
                    slides |-> normalizedSlides,
                    stats |-> summaryStats(Len(normalizedSlides), fallbackReplacements),
                    warnings |-> warnings(fallbackReplacements)])
    IN  IF ~SchemaAccepts(structured) THEN Raise(Err(<<"ZodError">>, NoErr))
        ELSE With(TargetSlides(structured.slides, desiredCount), LAMBDA slides :
             With(fallbackData, LAMBDA fallback :
             With({i \in 1..Len(slides) :
                      replaces(Map(<<slides[i], pickFallbackSlide(fallback.slides, i)>>,
                                   slideHasMeaningfulContent))},
                  LAMBDA hits :
                      result(IF 1 \in hits /\ isDocTitleWeak(structured.docTitle)
                                /\ fallback.docTitle # EmptyStr
                             THEN fallback.docTitle ELSE structured.docTitle,
                             [i \in 1..Len(slides) |->
                                 FinalSlide(orPlaceholder(
                                     IF i \in hits
                                     THEN pickFallbackSlide(fallback.slides, i)
                                     ELSE slides[i], i - 1), i - 1)],
                             Cardinality(hits)))))

\* jsonCompletion: what it hands to summarizeToSlides
jsonCompletion(result) ==
    IF result.kind = "return" /\ result.data = "nocontent"
    THEN Raise(Err(<<"Longcat", "returned", "no", "content">>, NoErr))
    ELSE result

\* the slides remote documents are made of, by name
RawSlides ==
    LET str(c, n) == <<Run(c, n)>>
        topic == Lit(<<"T", "o", "p", "i", "c">>)
        body == <<Run("a", 50), Run(" ", 1), Run("b", 40), Run(".", 1)>>
        quarter(k) == <<Run("Q", 1), Run(ToString(k), 1)>>
        entry(label, values) == [label |-> label, values |-> values]
        chart(type, categories, series, label) ==
            [type |-> type, categories |-> categories, series |-> series, label |-> label]
        withChart(c) == Slide(topic, body, <<str("c", 20), str("d", 15)>>, c)
    IN  [ good |-> Slide(topic, body, <<str("c", 20), str("d", 15), str("e", 12)>>,
                         chart("bar", <<quarter(1), quarter(2)>>, <<[num |-> 1], [text |-> 2]>>,
                               str("R", 1))),
          second |-> Slide(<<Run("*", 1), Run(" ", 1), Run("N", 1), Run("e", 1)>>,
                           <<Run("d", 90), Run(".", 1), Run(" ", 1), Run("e", 30),
                             Run(".", 1)>>,
                           <<str("c", 20), str("c", 20), str("d", 15)>>, NullChart),
          thin |-> Slide(topic, SUMMARY_PARAGRAPH_PLACEHOLDER, <<str("x", 5)>>, NullChart),
          filler |-> Slide(topic, BULLET_FILLER_STRINGS[2], <<>>, NullChart),
          nonascii |-> Slide(str("U4E2D", 3), str("U4E2D", 30), <<>>, NullChart),
          markers |-> Slide(<<Run("-", 1), Run(" ", 1), Run("-", 1), Run(" ", 1),
                              Run("T", 1), Run("i", 1)>>,
                            body,
                            << <<Run("-", 1), Run(" ", 1), Run("*", 1), Run(" ", 1),
                                 Run("c", 20)>>,
                               <<Run("U2022", 1), Run(" ", 1), Run("d", 15)>> >>,
                            NullChart),
          sanitized |-> Slide(topic, body, <<str("U4E2D", 5), str("d", 15)>>, NullChart),
          long |-> Slide(<<Run("H", 40), Run(" ", 1), Run("h", 40)>>,
                         <<Run("a", 300), Run(" ", 2), Run("b", 200), Run(".", 1)>>,
                         <<str("c", 150), str("d", 15), str("e", 12), str("f", 12),
                           str("g", 12), str("h", 12)>>,
                         chart("PIE", [k \in 1..21 |-> quarter(k % 10)],
                               [k \in 1..21 |-> [num |-> k]], str("U4E2D", 2))),
          blank |-> Slide(EmptyStr, EmptyStr, <<>>, NullChart),
          area |-> withChart(chart("area", <<quarter(1)>>, <<[num |-> 1]>>, EmptyStr)),
          noCategories |-> withChart(chart("bar", <<str(" ", 1), EmptyStr>>,
                                           <<[num |-> 1]>>, EmptyStr)),
          noSeries |-> withChart(chart("Line", <<quarter(1)>>, <<>>, EmptyStr)),
          notFinite |-> withChart(chart("line", <<quarter(1)>>,
                                        <<[nan |-> TRUE], [nan |-> TRUE]>>, EmptyStr)),
          mixed |-> withChart(chart("BAR", <<quarter(1), str(" ", 2), quarter(2)>>,
                                    <<[num |-> 3], [nan |-> TRUE],
                                      entry(str("A", 1), <<[text |-> 4], [nan |-> TRUE]>>),
                                      entry(str(" ", 1), <<[num |-> 5]>>),
                                      entry(str("B", 1), <<[nan |-> TRUE]>>)>>,
                                    EmptyStr)),
          many |-> withChart(chart("line", <<quarter(1)>>,
                                   [k \in 1..7 |->
                                       entry(<<Run(" ", 1), Run("S", 1), Run(ToString(k), 1)>>,
                                             [j \in 1..21 |-> [num |-> j]])],
                                   EmptyStr)) ]

\* the response contents of the model, by name. A content is given by what
\* its parts are to the salvage strategies: fenced, direct and sliced are what
\* JSON.parse makes of the first fenced block, of the whole trimmed content and
\* of the text from the first '{' to the last '}' (NoErr where there is no
\* such text or it is not JSON); explicit and grouped are the slides that
\* parseExplicitSlideBlocks and parseGroupedSections find
\*   garbage   not json
\*   number    5
\*   good ...  a JSON document on one line
\*   fenced    ```json <the document good> ```
\*   prose     Here is the deck: <the document good>
\*   quoted    the document good, ' ```5```' added to its first paragraph
\*   marked    **Slide 1:** Topic\n- c..c\n**Slide 2:** Next\n- d..d\n\n(2 slides total)
\*   sections  Topic\n- c..c\n\nNext\n- d..d
Payloads ==
    With(RawSlides, LAMBDA raw :
    LET doc(docTitle, slides) == [docTitle |-> docTitle, slides |-> slides]
        plan(slides) == doc(Lit(<<"P", "l", "a", "n">>), slides)
        json(value) == [fenced |-> NoErr, direct |-> value, sliced |-> value,
                        explicit |-> <<>>, grouped |-> <<>>]
        freeText(explicit, grouped) == [fenced |-> NoErr, direct |-> NoErr, sliced |-> NoErr,
                                    explicit |-> explicit, grouped |-> grouped]
        found(headline, bullets) == [headline |-> headline, bullets |-> bullets]
        topic == Lit(<<"T", "o", "p", "i", "c">>)
        following == Lit(<<"N", "e", "x", "t">>)
        goodDeck == plan(<<raw.good, raw.second>>)
        quotedDeck == plan(<<[raw.good EXCEPT !.paragraph =
                             @ \o <<Run(" ", 1), Run("U0060", 3), Run("5", 1), Run("U0060", 3)>>],
                         raw.second>>)
    IN  [ garbage |-> freeText(<<>>, <<>>),
          number |-> [json([scalar |-> 5]) EXCEPT !.sliced = NoErr],
          good |-> json(goodDeck),
          thin |-> json(plan(<<raw.good, raw.thin>>)),
          weak |-> json(doc(Lit(<<"S", "u", "m", "m", "a", "r", "y">>), <<raw.thin, raw.thin>>)),
          three |-> json(plan(<<raw.good, raw.second, raw.good>>)),
          nine |-> json(plan([k \in 1..9 |-> IF k = 2 THEN raw.second ELSE raw.good])),
          weaklate |-> json(doc(Lit(<<"S", "u", "m", "m", "a", "r", "y">>),
                                <<raw.good, raw.thin>>)),
          filler |-> json(plan(<<raw.filler, raw.good>>)),
          nonascii |-> json(plan(<<raw.nonascii, raw.good>>)),
          fenced |-> [json(goodDeck) EXCEPT !.fenced = goodDeck, !.direct = NoErr],
          prose |-> [json(goodDeck) EXCEPT !.direct = NoErr],
          quoted |-> [json(quotedDeck) EXCEPT !.fenced = [scalar |-> 5]],
          marked |-> freeText(<<found(topic, <<<<Run("c", 20)>>>>), found(following, <<<<Run("d", 15)>>>>)>>,
                          <<found(Lit(<<"S", "l", "i", "d", "e", " ", "1", ":", " ",
                                        "T", "o", "p", "i", "c">>),
                                  <<<<Run("c", 20)>>,
                                    Lit(<<"S", "l", "i", "d", "e", " ", "2", ":", "*", "*",
                                          " ", "N", "e", "x", "t">>),
                                    <<Run("d", 15)>>>>)>>),
          sections |-> freeText(<<>>, <<found(topic, <<<<Run("c", 20)>>>>),
                                    found(following, <<<<Run("d", 15)>>>>)>>) ])

\* tryExtractJson: the fenced block, then the whole content, then the text in
\* braces; a parse that fails or yields a falsy value counts as no result
tryExtractJson(content) ==
    With(Payloads[content], LAMBDA parts :
        IF parts.fenced # NoErr THEN parts.fenced
        ELSE IF parts.direct # NoErr THEN parts.direct
        ELSE IF parts.sliced # NoErr THEN parts.sliced
        ELSE NoErr)

\* parseStructuredResponse: tryExtractJson, then parseSlidesFromText (the
\* explicit slide blocks, then the grouped sections, through buildSlidePayload;
\* the slides it builds have no paragraph), then the error
parseStructuredResponse(content) ==
    LET buildSlidePayload(slides) ==
            [docTitle |-> IF slides[1].headline = EmptyStr THEN GeneratedSummary
                          ELSE slides[1].headline,
             slides |-> [i \in 1..Len(slides) |->
                            Slide(slides[i].headline, EmptyStr, slides[i].bullets, NullChart)]]
    IN  IF content = ""
        THEN Raise(Err(<<"Longcat", "returned", "an", "empty", "response">>, NoErr))
        ELSE With(tryExtractJson(content), LAMBDA jsonCandidate :
             With(Payloads[content], LAMBDA parts :
                 IF jsonCandidate # NoErr THEN Return(jsonCandidate)
                 ELSE IF parts.explicit # <<>> THEN Return(buildSlidePayload(parts.explicit))
                 ELSE IF parts.grouped # <<>> THEN Return(buildSlidePayload(parts.grouped))
                 ELSE Raise(Err(<<"Longcat", "response", "was", "not", "valid", "JSON">>,
                                NoErr))))

\* summarizeToSlides falling back on the heuristic deck after every failure
summarizeOutcomeAnyFailure(t, result) ==
    With(determineSlideCount(t), LAMBDA stats :
    With(buildHeuristicSummary(t, stats), LAMBDA summary :
    With(jsonCompletion(result), LAMBDA raw :
    With(IF raw.kind = "raise" THEN raw ELSE parseStructuredResponse(raw.data),
         LAMBDA parsed :
             IF parsed.kind = "raise"
             THEN HeuristicDeck(stats, summary, normalizeStructuredResponse(summary))
             ELSE RemoteDeck(stats, normalizeStructuredResponse(parsed.data),
                             normalizeStructuredResponse(summary))))))

\* summarizeToSlides from the end of the remote call on (lines 279-391)
summarizeOutcome(t, result) ==
    With(determineSlideCount(t), LAMBDA stats :
    With(jsonCompletion(result), LAMBDA raw :
    With(IF raw.kind = "raise" THEN raw ELSE parseStructuredResponse(raw.data),
         LAMBDA parsed :
             IF parsed.kind = "raise"
             THEN IF isLikelyNetworkError(parsed.error)
                  THEN With(buildHeuristicSummary(t, stats), LAMBDA summary :
                            HeuristicDeck(stats, summary,
                                          normalizeStructuredResponse(summary)))
                  ELSE Raise(parsed.error)
             ELSE RemoteDeck(stats, normalizeStructuredResponse(parsed.data),
                             normalizeStructuredResponse(
                                 buildHeuristicSummary(t, stats))))))

\* the source texts of the model
Texts ==
    { EmptyStr,
      <<Run("U4E2D", 30)>>,
      <<Run("-", 1), Run(" ", 1), Run("a", 50), Run(".", 1), Run(" ", 1), Run("b", 60),
        Run(".", 1), Run("\n", 2), Run("b", 130), Run("!", 1), Run(" ", 2),
        Run("U2022", 1), Run("a", 9), Run("?", 1)>>,
      <<Run("a", 500), Run(" ", 1), Run("b", 300), Run(".", 1), Run("\n", 2),
        Run("b", 2000), Run(" ", 1), Run("a", 1500), Run(".", 1)>> }

-----------------------------------------------------------------------------
(* The completion pipeline.  One request is observed from its start to its *)
(* end; the next request starts on the same client when it has ended.      *)
(* Requests that run at the same time on the shared client are seen        *)
(* through the only thing they do to shared state: markInvalid on the      *)
(* shared pool.                                                            *)

\* entries of LONGCAT_API_KEYS; LONGCAT_API_KEY is not set
RawKeys == { <<"1.", "ka">>, <<"1.", "2.", "3.", "4.", "kp">> }

\* const longcat = createLongcatClient(), evaluated when the server module loads
InitClient ==
    /\ \E envList \in SeqsUpTo(RawKeys, MaxListLen) :
          configured = resolveKeys(NullKey, <<>>, envList, NullKey)
    /\ pool = KeyManagerPool(configured)
    /\ index = 0
    /\ pc = "idle"
    /\ text = EmptyStr
    /\ apiKey = NullKey
    /\ attempt = 0
    /\ lastError = NoErr
    /\ calls = 0
    /\ startPool = <<>>
    /\ rejected = {}
    /\ seen = {}
    /\ postResult = NoResult
    /\ sumResult = NoResult

\* post() ends: it returns or raises
Settle(result) ==
    /\ pc' = "settled"
    /\ postResult' = result
    /\ UNCHANGED <<apiKey, attempt, calls>>

\* variant: every fetch() is charged to the attempts already made
IssueFetchCharged(k, n, count) ==
    /\ count < MaxCalls
    /\ apiKey' = k
    /\ attempt' = attempt + 1
    /\ calls' = count + 1
    /\ pc' = "inflight"
    /\ postResult' = NoResult

\* post() issues the next fetch(), under key k as attempt number n
IssueFetch(k, n, count) ==
    /\ count < MaxCalls
    /\ apiKey' = k
    /\ attempt' = n
    /\ calls' = count + 1
    /\ pc' = "inflight"
    /\ postResult' = NoResult

\* POST /api/create-video reaches summarizeToSlides({ longcat, text }), which
\* runs up to the first fetch() of post()
Request(t) ==
    /\ pc \in {"idle", "done"}
    /\ text' = t
    /\ lastError' = NoErr
    /\ rejected' = {}
    /\ seen' = {}
    /\ UNCHANGED <<configured, pool, ttsVars, call, ret, downloadVars, videoVars>>
    /\ IF Trim(t) = EmptyStr
       THEN /\ pc' = "done"
            /\ sumResult' =
                   Raise(Err(<<"No", "text", "content", "extracted", "from", "PDF">>, NoErr))
            /\ postResult' = NoResult
            /\ apiKey' = NullKey
            /\ attempt' = 0
            /\ calls' = 0
            /\ startPool' = <<>>
            /\ UNCHANGED index
       ELSE /\ index' = CurrentIndex(pool, index)
            /\ startPool' = pool
            /\ sumResult' = NoResult
            /\ IF current(pool, index) = NullKey
               THEN /\ pc' = "settled"
                    /\ postResult' = Raise(NoKeysError(NoErr))
                    /\ apiKey' = NullKey
                    /\ attempt' = 0
                    /\ calls' = 0
               ELSE IssueFetch(current(pool, index), 1, 0)

\* fetch() rejects (lines 120-133)
FetchFails(error) ==
    /\ pc = "inflight"
    /\ lastError' = error
    /\ seen' = seen \cup {TransportClass(error)}
    /\ IF ~isRetryableFetchError(error) \/ AttemptsExhausted(attempt)
       THEN Settle(Raise(Err(FetchErrorPrefix(proxyConfigured) \o <<":">>
                              \o formatFetchError(error), error)))
       ELSE /\ IssueFetch(apiKey, attempt + 1, calls)
    /\ UNCHANGED <<configured, pool, index, text, startPool, rejected,
                   sumResult, ttsVars, call, ret, downloadVars, videoVars>>

\* the response is not ok (lines 135-162)
RespondNotOk(status, detail) ==
    LET error == StatusError(status, detail)
        mk == markInvalid(pool, index, apiKey)
    IN  /\ pc = "inflight"
        /\ UNCHANGED <<configured, text, startPool, sumResult, ttsVars, call, ret, downloadVars, videoVars>>
        /\ IF status = 401 \/ status = 403
           THEN /\ lastError' = error
                /\ seen' = seen \cup {"reject"}
                /\ rejected' = rejected \cup {apiKey}
                /\ pool' = mk.pool
                /\ index' = mk.index
                /\ IF mk.key = NullKey
                   THEN Settle(Raise(Err(AllRejectedMessage, error)))
                   ELSE /\ IssueFetch(current(mk.pool, mk.index), 1, calls)
           ELSE /\ UNCHANGED <<pool, index, rejected>>
                /\ seen' = seen \cup {IF status \in RETRYABLE_STATUS_CODES
                                       THEN "transient" ELSE "other"}
                /\ IF status \notin RETRYABLE_STATUS_CODES \/ AttemptsExhausted(attempt)
                   THEN /\ Settle(Raise(error))
                        /\ UNCHANGED lastError
                   ELSE /\ lastError' = error
                        /\ IssueFetch(apiKey, attempt + 1, calls)

\* variant: an unreadable body has a budget of its own, counted from the
\* first unreadable body on
RespondOkOwnBudget(body) ==
    /\ pc = "inflight"
    /\ UNCHANGED <<configured, pool, index, text, startPool, rejected,
                   sumResult, ttsVars, call, ret, downloadVars, videoVars>>
    /\ seen' = seen \cup {"other"}
    /\ IF body = "unreadable"
       THEN /\ lastError' = JsonSyntaxError
            /\ IF AttemptsExhausted(attempt) /\ lastError = JsonSyntaxError
               THEN Settle(Raise(Err(UnreadableBodyMessage, JsonSyntaxError)))
               ELSE /\ IssueFetch(apiKey, IF lastError = JsonSyntaxError
                                          THEN attempt + 1 ELSE 1, calls)
       ELSE /\ UNCHANGED lastError
            /\ Settle(Return(body))

\* the response is ok (lines 164-173)
RespondOk(body) ==
    /\ pc = "inflight"
    /\ UNCHANGED <<configured, pool, index, text, startPool, rejected,
                   sumResult, ttsVars, call, ret, downloadVars, videoVars>>
    /\ seen' = seen \cup {"other"}
    /\ IF body = "unreadable"
       THEN /\ lastError' = JsonSyntaxError
            /\ IF AttemptsExhausted(attempt)
               THEN Settle(Raise(Err(UnreadableBodyMessage, JsonSyntaxError)))
               ELSE /\ IssueFetch(apiKey, attempt + 1, calls)
       ELSE /\ UNCHANGED lastError
            /\ Settle(Return(body))

\* summarizeToSlides runs from the end of jsonCompletion to its own end
Finish ==
    /\ pc = "settled"
    /\ pc' = "done"
    /\ sumResult' = summarizeOutcome(text, postResult)
    /\ UNCHANGED <<configured, pool, index, text, apiKey, attempt,
                   lastError, calls, startPool, rejected, seen, postResult, ttsVars, call, ret, downloadVars, videoVars>>

\* a request running at the same time on the shared client had its call
\* under key k answered with 401 or 403 (lines 141-147)
OtherRequestRejected(k) ==
    /\ pc = "inflight"
    /\ k \in Range(pool)
    /\ pool' = markInvalid(pool, index, k).pool
    /\ index' = markInvalid(pool, index, k).index
    /\ UNCHANGED <<configured, pc, text, apiKey, attempt, lastError,
                   calls, startPool, rejected, seen, postResult, sumResult, ttsVars, call, ret, downloadVars, videoVars>>

-----------------------------------------------------------------------------
(* The synthesis client: synthesizeHeadline builds its own key manager and *)
(* voice manager at every call.                                            *)

TTS_RETRYABLE_CAUSE_CODES ==
    {"UND_ERR_CONNECT_TIMEOUT", "UND_ERR_HEADERS_TIMEOUT", "UND_ERR_SOCKET",
     "UND_ERR_BODY_TIMEOUT", "ECONNRESET", "ETIMEDOUT"}

defaultVoices == << <<"21m00Tcm4TlvDq8ikWAM">>, <<"EXAVITQu4vr4xnSDxMaL">> >>

resolveElevenLabsKeys(primary, envKey, envList) ==
    AddAll(AddAll(AddAll(<<>>, <<primary>>), <<envKey>>), parseKeyList(envList))

resolveElevenLabsVoiceIds(primary, envVoice, envList) ==
    AddAll(AddAll(AddAll(AddAll(<<>>, <<primary>>), <<envVoice>>), parseKeyList(envList)),
           defaultVoices)

createKeyManager(keys) == [pool |-> KeyManagerPool(keys), index |-> 0]

createVoiceManager(ids) == createKeyManager(ids)

\* the manager after current() has run on it
AfterCurrent(m) == [pool |-> m.pool, index |-> CurrentIndex(m.pool, m.index)]

\* the manager after markInvalid(key) has run on it
AfterMarkInvalid(m, key) ==
    [pool |-> markInvalid(m.pool, m.index, key).pool,
     index |-> markInvalid(m.pool, m.index, key).index]

isRetryableError(error) ==
    LET cause == error.cause
        code == IF IsErr(cause) /\ cause.code # "" THEN cause.code ELSE error.code
        message == Lower(JoinMessages(error.message,
                                      IF IsErr(cause) THEN cause.message ELSE <<>>))
    IN  \/ code # "" /\ code \in TTS_RETRYABLE_CAUSE_CODES
        \/ error.name = "AbortError"
        \/ Includes(message, <<"timeout">>)
        \/ Includes(message, <<"temporarily", "unavailable">>)

\* formatFetchError of the synthesis client: the distinct parts joined by ' | '
formatFetchErrorTts(error) ==
    LET cause == error.cause
        hasCause == IsErr(cause)
    IN  IF error.message = <<>> /\ ~hasCause THEN <<"unknown", "error">>
        ELSE error.message
             \o (IF hasCause /\ cause.code # ""
                 THEN <<"|", "code=">> \o CodeTokens(cause.code) ELSE <<>>)
             \o (IF hasCause /\ cause.message # <<>> /\ cause.message # error.message
                 THEN <<"|">> \o cause.message ELSE <<>>)

\* `ElevenLabs synthesis failed (${status}): ${text.slice(0, 200) || 'no details'}`
TtsStatusError(status, body) ==
    Err(<<"ElevenLabs", "synthesis", "failed", "(", ToString(status), "):">>
        \o (IF body = <<>> THEN <<"no", "details">> ELSE body), NoErr)

\* error.message.startsWith('ElevenLabs synthesis failed')
IsSynthesisFailed(error) ==
    /\ Len(error.message) >= 3
    /\ SubSeq(error.message, 1, 3) = <<"ElevenLabs", "synthesis", "failed">>

\* the errors of lines 47-60, raised when a manager has nothing left
ExhaustedError(baseMessage, last) ==
    IF IsErr(last) THEN Err(baseMessage \o <<":">> \o formatFetchErrorTts(last), last)
    ELSE Err(baseMessage, NoErr)

ConnectionRefused == FetchFailed(SysErr(<<"connect", "ECONNREFUSED">>, "ECONNREFUSED"))

DiskError == SysErr(<<"ENOSPC", "no", "space", "left", "on", "device">>, "ENOSPC")

TtsTransportErrors == {TimeoutError, ConnectionRefused}

TtsStatuses == {400, 401, 403, 500}

TtsBodies == {<<>>, <<"voice_limit_reached">>}

\* values of apiKey / ELEVENLABS_API_KEY and entries of ELEVENLABS_API_KEYS
TtsRawKeys == { <<"xi_a">>, <<"1.", "2.", "3.", "xi_p">> }

TtsRawVoices == { <<"voice_a">> }

InitTts ==
    /\ keyManager = createKeyManager(<<>>)
    /\ voiceManager = createVoiceManager(<<>>)
    /\ ttsPc = "idle"
    /\ currentKey = NullKey
    /\ currentVoiceId = NullKey
    /\ ttsAttempt = 0
    /\ ttsLastError = NoErr
    /\ ttsCalls = 0
    /\ ttsSeen = {}
    /\ ttsResult = NoResult
    /\ ttsStartPools = [keys |-> <<>>, voices |-> <<>>]

\* synthesizeHeadline ends: it returns or raises
TtsSettle(result) ==
    /\ ttsPc' = "done"
    /\ ttsResult' = result
    /\ UNCHANGED <<currentKey, currentVoiceId, ttsAttempt, ttsCalls>>

\* synthesizeHeadline issues the next fetch()
TtsIssueFetch(key, voice, n, count) ==
    /\ count < MaxCalls
    /\ currentKey' = key
    /\ currentVoiceId' = voice
    /\ ttsAttempt' = n
    /\ ttsCalls' = count + 1
    /\ ttsPc' = "inflight"
    /\ ttsResult' = NoResult

\* the top of the while loop (lines 45-60), reached with managers km and vm
TtsLoopTop(km, vm, last, count) ==
    LET key == current(km.pool, km.index)
        voice == current(vm.pool, vm.index)
    IN  /\ keyManager' = AfterCurrent(km)
        /\ voiceManager' = AfterCurrent(vm)
        /\ IF key = NullKey
           THEN TtsSettle(Raise(ExhaustedError(
                    <<"All", "ElevenLabs", "API", "keys", "failed">>, last)))
           ELSE IF voice = NullKey
           THEN TtsSettle(Raise(ExhaustedError(
                    <<"All", "ElevenLabs", "voice", "IDs", "were", "rejected">>, last)))
           ELSE TtsIssueFetch(key, voice, 1, count)

\* the catch block (lines 115-135) for an error that is no status error
TtsCatch(error) ==
    /\ ttsLastError' = error
    /\ UNCHANGED <<keyManager, voiceManager>>
    /\ IF IsSynthesisFailed(error)
       THEN TtsSettle(Raise(error))
       ELSE IF ~isRetryableError(error) \/ ttsAttempt = MAX_TTS_ATTEMPTS
       THEN TtsSettle(Raise(Err(<<"ElevenLabs", "synthesis", "request", "failed", ":">>
                                 \o formatFetchErrorTts(error), NoErr)))
       ELSE TtsIssueFetch(currentKey, currentVoiceId, ttsAttempt + 1, ttsCalls)

\* synthesizeHeadline({ apiKey, voiceId }) runs up to its first fetch();
\* server.js passes process.env.ELEVENLABS_API_KEY and ELEVENLABS_VOICE_ID
Synthesize(apiKeyArg, voiceIdArg, envList) ==
    LET km == createKeyManager(resolveElevenLabsKeys(apiKeyArg, apiKeyArg, envList))
        vm == createVoiceManager(resolveElevenLabsVoiceIds(voiceIdArg, voiceIdArg, <<>>))
    IN  /\ ttsPc \in {"idle", "done"}
        /\ ttsLastError' = NoErr
        /\ ttsSeen' = {}
        /\ ttsStartPools' = [keys |-> km.pool, voices |-> vm.pool]
        /\ UNCHANGED <<clientVars, call, ret, downloadVars, videoVars>>
        /\ IF current(km.pool, km.index) = NullKey \/ current(vm.pool, vm.index) = NullKey
           THEN /\ keyManager' = AfterCurrent(km)
                /\ voiceManager' = IF current(km.pool, km.index) = NullKey
                                   THEN vm ELSE AfterCurrent(vm)
                /\ ttsPc' = "done"
                /\ ttsResult' = Raise(Err(IF current(km.pool, km.index) = NullKey
                                          THEN <<"Missing", "ELEVENLABS_API_KEY">>
                                          ELSE <<"Missing", "ELEVENLABS_VOICE_ID">>, NoErr))
                /\ currentKey' = NullKey
                /\ currentVoiceId' = NullKey
                /\ ttsAttempt' = 0
                /\ ttsCalls' = 0
           ELSE TtsLoopTop(km, vm, NoErr, 0)

\* fetch() rejects
TtsFetchFails(error) ==
    /\ ttsPc = "inflight"
    /\ ttsSeen' = ttsSeen \cup {IF isRetryableError(error) THEN "transient" ELSE "other"}
    /\ TtsCatch(error)
    /\ UNCHANGED <<ttsStartPools, clientVars, call, ret, downloadVars, videoVars>>

\* the response is not ok (lines 80-104)
TtsRespondNotOk(status, body) ==
    LET error == TtsStatusError(status, body)
    IN  /\ ttsPc = "inflight"
        /\ UNCHANGED <<ttsStartPools, clientVars, call, ret, downloadVars, videoVars>>
        /\ IF status = 401 \/ status = 403
           THEN /\ ttsLastError' = error
                /\ ttsSeen' = ttsSeen \cup {"reject"}
                /\ TtsLoopTop(AfterMarkInvalid(keyManager, currentKey), voiceManager,
                              error, ttsCalls)
           ELSE IF status = 400 /\ Includes(body, <<"voice_limit_reached">>)
           THEN /\ ttsLastError' = error
                /\ ttsSeen' = ttsSeen \cup {"voice"}
                /\ TtsLoopTop(keyManager, AfterMarkInvalid(voiceManager, currentVoiceId),
                              error, ttsCalls)
           ELSE /\ ttsSeen' = ttsSeen \cup {IF status >= 500 THEN "server" ELSE "client"}
                /\ TtsCatch(error)

\* the response is ok: the clip is written, or arrayBuffer()/writeFile() fails
TtsRespondOk(writeError) ==
    /\ ttsPc = "inflight"
    /\ UNCHANGED <<ttsStartPools, clientVars, call, ret, downloadVars, videoVars>>
    /\ ttsSeen' = ttsSeen \cup {"other"}
    /\ IF IsErr(writeError)
       THEN TtsCatch(writeError)
       ELSE /\ TtsSettle(Return("clip"))
            /\ UNCHANGED <<keyManager, voiceManager, ttsLastError>>

-----------------------------------------------------------------------------
(* The download endpoint of the render server (server.js) *)

\* the values randomUUID() can return
FileIds == {"f1", "f2"}

\* const downloadStore = new Map(), an empty renders directory, no request yet
InitDownload ==
    /\ downloadStore = {}
    /\ renders = {}
    /\ issued = {}
    /\ requests = <<>>
    /\ closed = {}

\* registerLocalDownload: a fresh fileId, the render moved to RENDERS_DIR and
\* a record of it set in downloadStore
registerLocalDownload(fileId) ==
    /\ fileId \notin issued
    /\ issued' = issued \cup {fileId}
    /\ renders' = renders \cup {fileId}
    /\ downloadStore' = downloadStore \cup {fileId}
    /\ UNCHANGED <<requests, closed, clientVars, ttsVars, call, ret, videoVars>>

\* GET /api/download up to `await fs.access(record.path)`: 400 without a
\* fileId, 404 without a record, otherwise the handler waits for fs.access
GetDownload(fileId) ==
    /\ Len(requests) < MaxRequests
    /\ requests' = Append(requests,
            [fileId |-> fileId, afterClose |-> fileId \in closed] @@
            (IF fileId = "" THEN [pc |-> "done", status |-> 400, body |-> "Missing fileId"]
             ELSE IF fileId \notin downloadStore
                  THEN [pc |-> "done", status |-> 404, body |-> "File not found"]
                  ELSE [pc |-> "access", status |-> 0, body |-> ""]))
    /\ UNCHANGED <<downloadStore, renders, issued, closed, clientVars, ttsVars, call, ret, videoVars>>

\* GET /api/download from the end of fs.access on: the record is deleted and
\* 404 sent when the file is gone, otherwise a read stream of it is piped
AccessSettled(i) ==
    /\ requests[i].pc = "access"
    /\ IF requests[i].fileId \notin renders
       THEN /\ downloadStore' = downloadStore \ {requests[i].fileId}
            /\ requests' = [requests EXCEPT ![i].pc = "done", ![i].status = 404,
                                            ![i].body = "File expired"]
       ELSE /\ requests' = [requests EXCEPT ![i].pc = "streaming", ![i].status = 200,
                                            ![i].body = "video"]
            /\ UNCHANGED downloadStore
    /\ UNCHANGED <<renders, issued, closed, clientVars, ttsVars, call, ret, videoVars>>

\* a 'close' handler that leaves the record and the file in place
StreamClosedKeepsRender(i) ==
    /\ requests[i].pc = "streaming"
    /\ requests' = [requests EXCEPT ![i].pc = "done"]
    /\ closed' = closed \cup {requests[i].fileId}
    /\ UNCHANGED <<downloadStore, renders, issued, clientVars, ttsVars, call, ret, videoVars>>

\* stream.on('close'): the record is deleted and the file unlinked (an unlink
\* of a file already gone fails and the failure is ignored)
StreamClosed(i) ==
    /\ requests[i].pc = "streaming"
    /\ requests' = [requests EXCEPT ![i].pc = "done"]
    /\ downloadStore' = downloadStore \ {requests[i].fileId}
    /\ renders' = renders \ {requests[i].fileId}
    /\ closed' = closed \cup {requests[i].fileId}
    /\ UNCHANGED <<issued, clientVars, ttsVars, call, ret, videoVars>>

-----------------------------------------------------------------------------
(* POST /api/create-video (server.js), from the planned slides on *)

\* what synthesizeHeadline hands back for a slide: a clip of some seconds, or
\* one of the errors it raises
SynthesisResults ==
    {Return([duration |-> d]) : d \in {3, 12}}
    \cup {Raise(Err(message, NoErr)) :
            message \in {<<"ElevenLabs", "synthesis", "failed", "(500)">>,
                         <<"All", "ElevenLabs", "API", "keys", "failed">>}}

\* an ffmpeg run ends or fails
FfmpegOutcomes == {NoErr, Err(<<"ffmpeg", "exited", "with", "code", "1">>, NoErr)}

InitVideo ==
    /\ videoPc = "idle"
    /\ plannedSlides = 0
    /\ mediaEntries = <<>>
    /\ audioClips = <<>>
    /\ ttsError = NoErr
    /\ voiceover = NoResult
    /\ slideLogs = <<>>
    /\ response = NoResult
    /\ events = <<>>

\* variant: the padded clips concatenated last clip first
buildVoiceoverReversed(clips) ==
    [filePath |-> "voiceover.mp3", duration |-> Len(clips) * 10,
     parts |-> [i \in 1..Len(clips) |->
                   [paddedPath |-> i, inputPath |-> clips[Len(clips) + 1 - i].filePath]]]

\* buildVoiceover: the clips padded one after the other, then concatenated
buildVoiceover(clips) ==
    [filePath |-> "voiceover.mp3", duration |-> Len(clips) * 10,
     parts |-> [i \in 1..Len(clips) |-> [paddedPath |-> i, inputPath |-> clips[i].filePath]]]

\* buildSilentVoiceover
buildSilentVoiceover(durationSeconds) ==
    [filePath |-> "voiceover-silent.mp3", duration |-> durationSeconds, parts |-> <<>>]

\* the catch block of the handler
Respond500(error) ==
    /\ response' = [status |-> 500, error |-> error.message]
    /\ videoPc' = "done"

\* the request up to the first slide image: n slides are planned
CreateVideo(n) ==
    /\ videoPc \in {"idle", "done"}
    /\ issued # FileIds
    /\ videoPc' = "images"
    /\ plannedSlides' = n
    /\ mediaEntries' = <<>>
    /\ audioClips' = <<>>
    /\ ttsError' = NoErr
    /\ voiceover' = NoResult
    /\ slideLogs' = <<>>
    /\ response' = NoResult
    /\ events' = <<>>
    /\ UNCHANGED <<clientVars, ttsVars, call, ret, downloadVars>>

\* one turn of the generate-images loop: slide-i.png written, the media entry
\* and the log of slide i pushed
RenderSlide ==
    /\ videoPc = "images"
    /\ LET i == Len(mediaEntries) + 1
       IN  /\ mediaEntries' = Append(mediaEntries, [slide |-> i, localPath |-> i])
           /\ slideLogs' = Append(slideLogs, [index |-> i])
           /\ events' = Append(events, [step |-> "image", slide |-> i])
           /\ videoPc' = IF i < plannedSlides THEN "images" ELSE "tts"
    /\ UNCHANGED <<plannedSlides, audioClips, ttsError, voiceover, response,
                   clientVars, ttsVars, call, ret, downloadVars>>

\* the tts loop calls synthesizeHeadline for the next slide
StartSynthesis ==
    /\ videoPc = "tts"
    /\ videoPc' = "synthesis"
    /\ events' = Append(events, [step |-> "synthesis-start", slide |-> Len(audioClips) + 1])
    /\ UNCHANGED <<plannedSlides, mediaEntries, audioClips, ttsError, voiceover, slideLogs, response,
                   clientVars, ttsVars, call, ret, downloadVars>>

\* variant: the loop goes on to the next slide after a failure
SynthesisSettlesContinuing(result) ==
    /\ videoPc = "synthesis"
    /\ LET i == Len(audioClips) + 1
       IN  /\ events' = Append(events, [step |-> "synthesis-end", slide |-> i])
           /\ videoPc' = IF i < Len(mediaEntries) THEN "tts" ELSE "track"
           /\ IF result.kind = "return"
              THEN /\ audioClips' = Append(audioClips, [filePath |-> i,
                                                        duration |-> result.data.duration])
                   /\ slideLogs' = [slideLogs EXCEPT ![i] =
                                       [index |-> i, ttsDuration |-> result.data.duration,
                                        voiceoverText |-> i]]
                   /\ UNCHANGED ttsError
              ELSE /\ ttsError' = result.error
                   /\ UNCHANGED <<audioClips, slideLogs>>
    /\ UNCHANGED <<plannedSlides, mediaEntries, voiceover, response,
                   clientVars, ttsVars, call, ret, downloadVars>>

\* synthesizeHeadline settles: the clip is pushed and logged, or ttsError is
\* set and the loop is left
SynthesisSettles(result) ==
    /\ videoPc = "synthesis"
    /\ LET i == Len(audioClips) + 1
       IN  /\ events' = Append(events, [step |-> "synthesis-end", slide |-> i])
           /\ IF result.kind = "return"
              THEN /\ audioClips' = Append(audioClips, [filePath |-> i,
                                                        duration |-> result.data.duration])
                   /\ slideLogs' = [slideLogs EXCEPT ![i] =
                                       [index |-> i, ttsDuration |-> result.data.duration,
                                        voiceoverText |-> i]]
                   /\ videoPc' = IF i < Len(mediaEntries) THEN "tts" ELSE "track"
                   /\ UNCHANGED ttsError
              ELSE /\ ttsError' = result.error
                   /\ videoPc' = "track"
                   /\ UNCHANGED <<audioClips, slideLogs>>
    /\ UNCHANGED <<plannedSlides, mediaEntries, voiceover, response,
                   clientVars, ttsVars, call, ret, downloadVars>>

\* the voiceover of the clips, or the silent track and the logs of the slides
\* without a clip
BuildTrack(outcome) ==
    /\ videoPc = "track"
    /\ IF ttsError = NoErr /\ Len(audioClips) = Len(mediaEntries) /\ Len(audioClips) > 0
       THEN /\ events' = Append(events, [step |-> "stitch", slide |-> 0])
            /\ UNCHANGED slideLogs
            /\ IF outcome = NoErr
               THEN /\ voiceover' = buildVoiceover(audioClips)
                    /\ videoPc' = "render"
                    /\ UNCHANGED response
               ELSE /\ Respond500(outcome)
                    /\ UNCHANGED voiceover
       ELSE /\ events' = Append(events, [step |-> "silent", slide |-> 0])
            /\ IF outcome = NoErr
               THEN /\ voiceover' = buildSilentVoiceover(10 * Len(mediaEntries))
                    /\ slideLogs' =
                          [i \in 1..Len(slideLogs) |->
                              IF i <= Len(audioClips) THEN slideLogs[i]
                              ELSE [index |-> i, ttsDuration |-> 0, voiceoverText |-> 0,
                                    ttsError |->
                                        IF ttsError # NoErr THEN ttsError.message
                                        ELSE <<"Voiceover", "skipped", "(no", "audio",
                                               "generated)">>]]
                    /\ videoPc' = "render"
                    /\ UNCHANGED response
               ELSE /\ Respond500(outcome)
                    /\ UNCHANGED <<voiceover, slideLogs>>
    /\ UNCHANGED <<plannedSlides, mediaEntries, audioClips, ttsError,
                   clientVars, ttsVars, call, ret, downloadVars>>

\* renderLocalVideo, registerLocalDownload and res.json
RenderVideo(outcome, fileId) ==
    /\ videoPc = "render"
    /\ events' = Append(events, [step |-> "render", slide |-> 0])
    /\ IF outcome = NoErr
       THEN /\ fileId \notin issued
            /\ issued' = issued \cup {fileId}
            /\ renders' = renders \cup {fileId}
            /\ downloadStore' = downloadStore \cup {fileId}
            /\ response' = [status |-> 200, ok |-> TRUE, fileId |-> fileId,
                            durationSeconds |-> voiceover.duration, slides |-> slideLogs]
            /\ videoPc' = "done"
       ELSE /\ Respond500(outcome)
            /\ UNCHANGED <<issued, renders, downloadStore>>
    /\ UNCHANGED <<plannedSlides, mediaEntries, audioClips, ttsError, voiceover, slideLogs,
                   requests, closed, clientVars, ttsVars, call, ret>>

-----------------------------------------------------------------------------
(* The functions of the program, each called on its own *)

\* the calls: the function and the arguments it is given
Calls ==
    LET slides == {RawSlides[name] : name \in DOMAIN RawSlides}
        plan == Lit(<<"P", "l", "a", "n">>)
        \* a long sentence followed by a short one
        tailed == <<Run("a", 3000), Run(".", 1), Run(" ", 1), Run("H", 1), Run("i", 1),
                    Run(".", 1)>>
        \* a document of one short sentence
        brief == <<Run("H", 1), Run("i", 1), Run(" ", 1), Run("a", 5), Run(".", 1)>>
        \* what longcat.jsonCompletion hands back: the errors post() raises and
        \* the contents of 2xx responses
        completions ==
            {Raise(Err(FetchErrorPrefix(proxyConfigured) \o <<":">> \o formatFetchError(error),
                       error)) : error \in TransportErrors}
            \cup {Raise(StatusError(status, detail)) : status \in {404, 503}, detail \in Details}
            \cup {Raise(Err(AllRejectedMessage, StatusError(401, <<>>))),
                  Raise(Err(UnreadableBodyMessage, JsonSyntaxError))}
            \cup {Return(content) : content \in {"nocontent", "garbage", "number", "good",
                                                  "thin", "weak", "weaklate", "filler",
                                                  "nonascii", "three", "nine"}}
        documents ==
            {[scalar |-> 5],
             [docTitle |-> plan, slides |-> <<>>],
             [title |-> plan, sections |-> <<RawSlides.second>>],
             RawSlides.good,
             [topic |-> <<Run("U4E2D", 4)>>, slides |-> [k \in 1..9 |-> RawSlides.second]]}
            \cup {[docTitle |-> plan, slides |-> <<slide, RawSlides.good>>] : slide \in slides}
        \* a text of n characters: k sections when k > 0, and otherwise blanks,
        \* which hold no section
        block(k, j, n) ==
            <<Run(<<"a", "b", "c", "d", "e", "f", "g">>[j], IF j < k THEN 120 ELSE n - (k - 1) * 122)>>
            \o (IF j < k THEN <<Run("\n", 2)>> ELSE <<>>)
        RECURSIVE flat(_)
        flat(parts) == IF parts = <<>> THEN <<>> ELSE Head(parts) \o flat(Tail(parts))
        sized(n, k) ==
            IF k > 0 THEN flat([j \in 1..k |-> block(k, j, n)])
            ELSE <<Run(" ", n)>>
        paragraphs ==
            {EmptyStr, SUMMARY_PARAGRAPH_PLACEHOLDER, <<Run("p", 39)>>, <<Run("p", 40)>>,
             <<Run("p", 79)>>, <<Run("p", 80)>>}
        bullet(n) == <<Run("q", n)>>
        bulletLists ==
            {<<>>, <<bullet(11)>>, <<bullet(12)>>, <<bullet(29)>>, <<bullet(30)>>,
             <<bullet(5), bullet(45)>>, <<bullet(12), bullet(37)>>, <<bullet(12), bullet(38)>>,
             <<bullet(11), bullet(11), bullet(11)>>, <<bullet(25), bullet(25)>>,
             BULLET_FILLER_STRINGS,
             <<<<Run("-", 1), Run(" ", 1), Run("q", 12)>>, SUMMARY_PARAGRAPH_PLACEHOLDER>>}
    IN  {[fn |-> "summarizeToSlides", text |-> t, completion |-> completion] :
            t \in Texts \cup {brief, tailed}, completion \in completions}
        \cup {[fn |-> "normalizeStructuredResponse", data |-> data] : data \in documents}
        \cup {[fn |-> "normalizeBullets", input |-> slide.bullets, paragraph |-> paragraph] :
                 slide \in slides,
                 paragraph \in {EmptyStr, BULLET_FILLER_STRINGS[1], RawSlides.second.paragraph}}
        \cup {[fn |-> "normalizeChart", input |-> slide.chart] : slide \in slides}
        \cup {[fn |-> "determineSlideCount", text |-> sized(n + d, k)] :
                 n \in {1200, 2600, 3000, 4200, 6200, 8800, 11500}, d \in {-1, 0},
                 k \in 0..7}
        \cup {[fn |-> "slideHasMeaningfulContent",
                slide |-> Slide(EmptyStr, paragraph, bullets, NullChart)] :
                 paragraph \in paragraphs, bullets \in bulletLists}
        \* a key manager as createKeyManager builds it and markInvalid leaves it:
        \* the cursor never leaves 0
        \* texts of n sentences of six characters each
        \cup {[fn |-> "buildHeuristicSummary",
                text |-> Canon([i \in 1..(3 * n - 1) |->
                                  IF i % 3 = 1 THEN Run(IF i % 2 = 1 THEN "a" ELSE "b", 5)
                                  ELSE IF i % 3 = 2 THEN Run(".", 1) ELSE Run(" ", 1)]),
                stats |-> [slideCount |-> targetCount, charCount |-> 7 * n - 1,
                           uniqueSections |-> 0]] :
                 n \in 2..10, targetCount \in 2..8}
        \cup {[fn |-> "ensureFallbackData", text |-> t, content |-> content] :
                 t \in (Texts \ {EmptyStr}) \cup {brief, tailed},
                 content \in {"good", "thin", "weak", "three"}}
        \cup {[fn |-> "parseStructuredResponse", content |-> content] :
                 content \in {"", "garbage", "number", "good", "fenced", "prose", "quoted",
                              "marked", "sections"}}
        \cup {[fn |-> "markInvalid", pool |-> KeyManagerPool(keys), index |-> 0, key |-> key] :
                 keys \in SeqsUpTo({<<"ka">>, <<"kb">>, <<"3.", "4.", "kp">>}, 3),
                 key \in {<<"ka">>, <<"kb">>, <<"kc">>, <<"4.", "kp">>}}
        \cup {[fn |-> "createLongcatClient", apiKey |-> explicitKey, apiKeys |-> apiKeys,
                LONGCAT_API_KEYS |-> envList, LONGCAT_API_KEY |-> envKey] :
                 explicitKey \in {NullKey, <<"ka">>, <<"1.", "2.", "3.", "kp">>},
                 apiKeys \in {<<>>, << <<"kb">>, <<" ", "ka">>, <<"kb">> >>},
                 envList \in SeqsUpTo({<<"1.", "ka">>, <<"1.", "2.", "3.", "kp">>,
                                       DEFAULT_LONGCAT_KEY}, 2),
                 envKey \in {NullKey, <<"kb">>}}

\* the calls before they run
InitCall == InitClient /\ InitTts /\ InitDownload /\ InitVideo /\ call \in Calls /\ ret = NoResult

\* one call runs from its start to its end
Apply ==
    \/ /\ call.fn = "summarizeToSlides"
       /\ ret = NoResult
       /\ ret' = IF Trim(call.text) = EmptyStr
                 THEN Raise(Err(<<"No", "text", "content", "extracted", "from", "PDF">>,
                                NoErr))
                 ELSE summarizeOutcome(call.text, call.completion)
       /\ UNCHANGED <<clientVars, ttsVars, call, downloadVars, videoVars>>
    \/ /\ call.fn = "normalizeStructuredResponse"
       /\ ret = NoResult
       /\ ret' = Return(normalizeStructuredResponse(call.data))
       /\ UNCHANGED <<clientVars, ttsVars, call, downloadVars, videoVars>>
    \/ /\ call.fn = "normalizeBullets"
       /\ ret = NoResult
       /\ ret' = Return(normalizeBullets(call.input, call.paragraph))
       /\ UNCHANGED <<clientVars, ttsVars, call, downloadVars, videoVars>>
    \/ /\ call.fn = "normalizeChart"
       /\ ret = NoResult
       /\ ret' = Return(normalizeChart(call.input))
       /\ UNCHANGED <<clientVars, ttsVars, call, downloadVars, videoVars>>
    \/ /\ call.fn = "determineSlideCount"
       /\ ret = NoResult
       /\ ret' = Return(determineSlideCount(call.text))
       /\ UNCHANGED <<clientVars, ttsVars, call, downloadVars, videoVars>>
    \/ /\ call.fn = "slideHasMeaningfulContent"
       /\ ret = NoResult
       /\ ret' = Return(slideHasMeaningfulContent(call.slide))
       /\ UNCHANGED <<clientVars, ttsVars, call, downloadVars, videoVars>>
    \/ /\ call.fn = "buildHeuristicSummary"
       /\ ret = NoResult
       /\ ret' = Return(buildHeuristicSummary(call.text, call.stats))
       /\ UNCHANGED <<clientVars, ttsVars, call, downloadVars, videoVars>>
    \/ /\ call.fn = "ensureFallbackData"
       /\ ret = NoResult
       /\ ret' = With(determineSlideCount(call.text), LAMBDA stats :
                  With(normalizeStructuredResponse(parseStructuredResponse(call.content).data),
                       LAMBDA structured :
                           IF ~SchemaAccepts(structured) THEN Raise(Err(<<"ZodError">>, NoErr))
                           ELSE Return(SubstitutionLoop(
                                    TargetSlides(structured.slides,
                                                 Min(Max(stats.slideCount, 2), 8)),
                                    1, [fallbackData |-> NoErr, computed |-> 0],
                                    call.text, stats))))
       /\ UNCHANGED <<clientVars, ttsVars, call, downloadVars, videoVars>>
    \/ /\ call.fn = "parseStructuredResponse"
       /\ ret = NoResult
       /\ ret' = parseStructuredResponse(call.content)
       /\ UNCHANGED <<clientVars, ttsVars, call, downloadVars, videoVars>>
    \/ /\ call.fn = "markInvalid"
       /\ ret = NoResult
       /\ ret' = Return(markInvalid(call.pool, call.index, call.key))
       /\ UNCHANGED <<clientVars, ttsVars, call, downloadVars, videoVars>>
    \/ /\ call.fn = "createLongcatClient"
       /\ ret = NoResult
       /\ ret' = Return(KeyManagerPool(resolveKeys(call.apiKey, call.apiKeys,
                                                   call.LONGCAT_API_KEYS,
                                                   call.LONGCAT_API_KEY)))
       /\ UNCHANGED <<clientVars, ttsVars, call, downloadVars, videoVars>>

-----------------------------------------------------------------------------
-----------------------------------------------------------------------------
(* Specifications *)

Init == InitClient /\ InitTts /\ InitDownload /\ InitVideo /\ call = [fn |-> "none"] /\ ret = NoResult

Next ==
    \/ \E t \in Texts : Request(t)
    \/ \E error \in TransportErrors : FetchFails(error)
    \/ \E status \in Statuses, detail \in Details : RespondNotOk(status, detail)
    \/ \E body \in OkBodies : RespondOk(body)
    \/ Finish

\* requests served one after the other
Spec == Init /\ [][Next]_vars

NextConc ==
    \/ Next
    \/ \E k \in Range(KeyManagerPool(configured)) : OtherRequestRejected(k)

\* requests served concurrently on the shared client
SpecConc == Init /\ [][NextConc]_vars

NextTts ==
    \/ \E apiKeyArg \in TtsRawKeys \cup {NullKey}, voiceIdArg \in TtsRawVoices \cup {NullKey},
          envList \in SeqsUpTo(TtsRawKeys, MaxListLen) :
          Synthesize(apiKeyArg, voiceIdArg, envList)
    \/ \E error \in TtsTransportErrors : TtsFetchFails(error)
    \/ \E status \in TtsStatuses, body \in TtsBodies : TtsRespondNotOk(status, body)
    \/ \E writeError \in {NoErr, DiskError} : TtsRespondOk(writeError)

\* the synthesis of one headline after the other
SpecTts == Init /\ [][NextTts]_vars

NextDownload ==
    \/ \E fileId \in FileIds : registerLocalDownload(fileId)
    \/ \E fileId \in FileIds \cup {""} : GetDownload(fileId)
    \/ \E i \in 1..Len(requests) : AccessSettled(i)
    \/ \E i \in 1..Len(requests) : StreamClosed(i)

\* renders registered and downloaded, the requests served concurrently
SpecDownload == Init /\ [][NextDownload]_vars

NextVideo ==
    \/ \E n \in 2..MaxSlides : CreateVideo(n)
    \/ RenderSlide
    \/ StartSynthesis
    \/ \E result \in SynthesisResults : SynthesisSettles(result)
    \/ \E outcome \in FfmpegOutcomes : BuildTrack(outcome)
    \/ \E outcome \in FfmpegOutcomes, fileId \in FileIds : RenderVideo(outcome, fileId)

\* videos created one request after the other
SpecVideo == Init /\ [][NextVideo]_vars

\* the functions of the program, each called once on one of the calls
SpecCall == InitCall /\ [][Apply]_vars

-----------------------------------------------------------------------------
(* Properties *)

\* keys that carried a network call of the observed invocation
Tried == rejected \cup (IF apiKey = NullKey THEN {} ELSE {apiKey})

\* C1: one invocation of post() on a pool of N credentials issues at most
\* N x 3 network calls, whatever the endpoint answers.
C1_CallBudget == calls <= 3 * Len(startPool)

\* C2: on a pool of N credentials whose every call is answered with 401 or
\* 403, post() removes one credential per call, issues at most N calls and
\* ends by raising 'All Longcat API keys were rejected by the server'.
C2_RejectionTerminates ==
    seen = {"reject"} =>
        /\ calls <= Len(startPool)
        /\ Len(pool) = Len(startPool) - (IF pc = "inflight" THEN calls - 1 ELSE calls)
        /\ pc \in {"settled", "done"} =>
               /\ postResult.kind = "raise"
               /\ postResult.error.message = AllRejectedMessage

\* C3: on a pool of exactly 1 credential, when every call fails with a
\* retryable transient error, post() issues exactly 3 network calls and
\* then raises.
C3_RetryCeiling ==
    (Len(startPool) = 1 /\ seen # {} /\ seen \subseteq {"transient", "dns"}) =>
        /\ calls <= 3
        /\ pc = "inflight" => calls = attempt
        /\ pc \in {"settled", "done"} => calls = 3 /\ postResult.kind = "raise"

C3_Witness ==
    /\ pc = "settled"
    /\ Len(startPool) = 1
    /\ seen = {"transient"}
    /\ calls = 3
    /\ postResult.kind = "raise"

\* C4: once a key has been marked invalid, no later network call of the
\* invocation carries it.
C4_RejectedKeyNotReused == pc = "inflight" => apiKey \notin rejected

\* C5: when the endpoint produces only transient failures and credential
\* rejections, post() raises only once every credential of the pool has
\* been tried; it does not give up while a never-tried credential remains.
C5_NoEarlyGiveUp ==
    ( /\ pc = "settled"
      /\ postResult.kind = "raise"
      /\ seen \subseteq {"transient", "dns", "reject"} ) =>
        Range(pool) \subseteq Tried

\* C6: every invocation starts from the full configured credential list,
\* whatever other invocations have done before it or do beside it.
C6_FreshPool == pc = "inflight" => startPool = KeyManagerPool(configured)

\* C7: a response with a 4xx status other than 401, 403, 408, 409, 425 and
\* 429 makes post() raise at once; the invocation issues no further network
\* call and the credential pool is left as it was.
C7_FatalStatus ==
    [][ /\ \A detail \in Details :
              RespondNotOk(404, detail) =>
                  /\ pc' = "settled"
                  /\ postResult' = Raise(StatusError(404, detail))
                  /\ calls' = calls
                  /\ pool' = pool
                  /\ index' = index
        /\ pc = "settled" => calls' = calls /\ pool' = pool ]_vars

C7_Witness ==
    /\ pc = "settled"
    /\ \E detail \in Details : postResult = Raise(StatusError(404, detail))
    /\ calls = 2
    /\ pool = startPool

\* C8: a synthesis that returns no clip raises an error that is the last
\* underlying error or carries it in its cause chain.
C8_CauseChainKept ==
    (ttsPc = "done" /\ ttsResult.kind = "raise" /\ IsErr(ttsLastError)) =>
        InCauseChain(ttsResult.error, ttsLastError)

\* the slides of a deck the summary schema accepts: 2 to 8 slides, each with
\* a headline, a paragraph and at least 2 bullets
ValidSlides(slides) ==
    /\ Len(slides) >= 2
    /\ Len(slides) <= 8
    /\ \A i \in 1..Len(slides) :
          /\ slides[i].headline # EmptyStr
          /\ slides[i].paragraph # EmptyStr
          /\ Len(slides[i].bullets) >= 2

\* C9: when every network call of the completion request fails with
\* ENOTFOUND, summarizeToSlides raises nothing: it returns the heuristic deck,
\* whose slides are valid, with the warning 'Longcat request failed;
\* generated heuristic summary instead.'.
C9_OutageFallback ==
    (pc = "done" /\ seen = {"dns"}) =>
        /\ sumResult.kind = "return"
        /\ With(determineSlideCount(text), LAMBDA stats :
           With(buildHeuristicSummary(text, stats), LAMBDA summary :
                sumResult = HeuristicDeck(stats, summary,
                                          normalizeStructuredResponse(summary))))
        /\ ValidSlides(sumResult.data.slides)
        /\ HeuristicWarning \in Range(sumResult.data.warnings)

C9_Witness ==
    /\ pc = "done"
    /\ seen = {"dns"}
    /\ calls = 3
    /\ sumResult.kind = "return"
    /\ Len(sumResult.data.slides) >= 2

\* C10: when all credentials have been rejected, summarizeToSlides raises
\* the all-credentials-exhausted error and returns no heuristic deck,
\* whatever the rejection responses contained.
C10_RejectionPropagates ==
    (pc = "done" /\ postResult.kind = "raise"
        /\ postResult.error.message = AllRejectedMessage) =>
        sumResult = postResult

\* C11: when the remote call succeeds but no structured document can be salvaged
\* from its content, summarizeToSlides raises the error to its caller and returns
\* no heuristic deck; the heuristic deck of the whole document is returned only
\* when the remote call itself failed for a reason classified as a network failure.
C11_SalvageFailureIsTerminal ==
    (call.fn = "summarizeToSlides" /\ ret # NoResult /\ Trim(call.text) # EmptyStr) =>
        /\ (/\ call.completion.kind = "return"
            /\ \/ jsonCompletion(call.completion).kind = "raise"
               \/ parseStructuredResponse(call.completion.data).kind = "raise")
           => /\ ret.kind = "raise"
              /\ ret.error.message \in {<<"Longcat", "returned", "no", "content">>,
                                        <<"Longcat", "response", "was", "not", "valid",
                                          "JSON">>}
        /\ (ret.kind = "return" /\ HeuristicWarning \in Range(ret.data.warnings))
           => /\ call.completion.kind = "raise"
              /\ isLikelyNetworkError(call.completion.error)

C11_Witness ==
    /\ call.fn = "summarizeToSlides"
    /\ call.completion = Return("garbage")
    /\ Trim(call.text) # EmptyStr
    /\ ret = Raise(Err(<<"Longcat", "response", "was", "not", "valid", "JSON">>, NoErr))

\* C12: every invocation of summarizeToSlides ends either in a raised error or in
\* a returned deck with a warnings list that satisfies the schema contract: a
\* non-empty docTitle and 2 to 8 slides, each with a non-empty headline, a
\* non-empty paragraph, 2 to 5 non-empty pairwise distinct bullets and a chart
\* that is null or valid.
C12_DeckOrError ==
    (call.fn = "summarizeToSlides" /\ ret # NoResult) =>
        LET distinct(list) ==
                \A i \in 1..Len(list) : \A j \in 1..Len(list) : i # j => list[i] # list[j]
            seriesOk(entry) ==
                /\ entry.label # EmptyStr
                /\ Len(entry.values) \in 1..20
                /\ \A k \in 1..Len(entry.values) : "num" \in DOMAIN entry.values[k]
            chartOk(chart) ==
                \/ chart = NullChart
                \/ /\ chart.type \in {"bar", "line", "pie"}
                   /\ Len(chart.categories) \in 1..20
                   /\ \A k \in 1..Len(chart.categories) : Trim(chart.categories[k]) # EmptyStr
                   /\ Len(chart.series) \in 1..6
                   /\ \A k \in 1..Len(chart.series) : seriesOk(chart.series[k])
            slideOk(slide) ==
                /\ slide.headline # EmptyStr
                /\ slide.paragraph # EmptyStr
                /\ Len(slide.bullets) \in 2..5
                /\ \A k \in 1..Len(slide.bullets) : slide.bullets[k] # EmptyStr
                /\ distinct(slide.bullets)
                /\ chartOk(slide.chart)
            deckOk(deck) ==
                /\ "warnings" \in DOMAIN deck
                /\ deck.docTitle # EmptyStr
                /\ Len(deck.slides) \in 2..8
                /\ \A i \in 1..Len(deck.slides) : slideOk(deck.slides[i])
        IN  ret.kind = "raise" \/ (ret.kind = "return" /\ deckOk(ret.data))

\* C13: for every value handed to normalizeStructuredResponse, a JSON number
\* included, the result is a document whose slides list has 2 to 8 entries, each
\* with a non-empty headline.
C13_NormalizedSlideCount ==
    (call.fn = "normalizeStructuredResponse" /\ ret # NoResult) =>
        /\ "slides" \in DOMAIN ret.data
        /\ Len(ret.data.slides) \in 2..8
        /\ \A i \in 1..Len(ret.data.slides) : ret.data.slides[i].headline # EmptyStr

\* C14: the paragraph the normalizer produces for a slide is never empty, also
\* when the paragraph of the input slide holds nothing but characters the text
\* sanitation removes.
C14_ParagraphNeverEmpty ==
    (call.fn = "normalizeStructuredResponse" /\ ret # NoResult /\ "slides" \in DOMAIN call.data) =>
        \A i \in 1..Len(ret.data.slides) : ret.data.slides[i].paragraph # EmptyStr

\* C15: normalizeBullets returns 2 to 5 bullets, all non-empty and pairwise
\* distinct, also for bullets the sanitation reduces to nothing and for bullets
\* or paragraphs equal to a filler string.
C15_BulletsDistinct ==
    (call.fn = "normalizeBullets" /\ ret # NoResult) =>
        /\ Len(ret.data) \in 2..5
        /\ \A i \in 1..Len(ret.data) : ret.data[i] # EmptyStr
        /\ \A i \in 1..Len(ret.data) : \A j \in 1..Len(ret.data) :
              i # j => ret.data[i] # ret.data[j]

\* C16: normalizeChart returns null or a chart whose type is bar, line or pie,
\* whose categories are 1 to 20 non-blank strings and whose series are 1 to 6
\* entries, each with a non-empty label and 1 to 20 finite numbers; a chart left
\* without categories or without series is dropped.
C16_ChartNullOrValid ==
    (call.fn = "normalizeChart" /\ ret # NoResult) =>
        LET seriesOk(entry) ==
                /\ entry.label # EmptyStr
                /\ Len(entry.values) \in 1..20
                /\ \A k \in 1..Len(entry.values) : "num" \in DOMAIN entry.values[k]
            chartOk(chart) ==
                /\ chart.type \in {"bar", "line", "pie"}
                /\ Len(chart.categories) \in 1..20
                /\ \A k \in 1..Len(chart.categories) : Trim(chart.categories[k]) # EmptyStr
                /\ Len(chart.series) \in 1..6
                /\ \A k \in 1..Len(chart.series) : seriesOk(chart.series[k])
        IN  ret.data = NullChart \/ chartOk(ret.data)

C16_Witness ==
    /\ call.fn = "normalizeChart"
    /\ call.input = RawSlides.many.chart
    /\ Len(call.input.series) = 7
    /\ ret.kind = "return"
    /\ ret.data # NullChart
    /\ Len(ret.data.series) = 6
    /\ Len(ret.data.series[1].values) = 20

\* C17: normalization is idempotent: normalizeStructuredResponse applied to its
\* own result gives that result again, field by field, also for headlines and
\* bullets that begin with repeated or typographic list markers.
C17_Idempotent ==
    (call.fn = "normalizeStructuredResponse" /\ ret # NoResult) =>
        normalizeStructuredResponse(ret.data) = ret.data

C19_MeaningfulContent ==
    (call.fn = "slideHasMeaningfulContent" /\ ret # NoResult) =>
        LET paragraphPlaceholders == {EmptyStr, SUMMARY_PARAGRAPH_PLACEHOLDER}
            bulletPlaceholders == paragraphPlaceholders \cup Range(BULLET_FILLER_STRINGS)
            cleaned == [i \in 1..Len(call.slide.bullets) |->
                           cleanBulletLine(call.slide.bullets[i])]
            real == {i \in 1..Len(cleaned) : cleaned[i] \notin bulletPlaceholders}
            RECURSIVE total(_)
            total(indices) ==
                IF indices = {} THEN 0
                ELSE LET i == CHOOSE k \in indices : TRUE
                     IN  StrLen(cleaned[i]) + total(indices \ {i})
            paragraphOf(length) ==
                call.slide.paragraph \notin paragraphPlaceholders
                /\ StrLen(call.slide.paragraph) >= length
            expected ==
                \/ paragraphOf(80)
                \/ Cardinality(real) >= 2 /\ total(real) >= 50
                \/ /\ paragraphOf(40)
                   /\ \/ \E i \in real : StrLen(cleaned[i]) >= 12
                      \/ total(real) >= 30
        IN  ret.data = expected

\* C20: for every remote document, summarizeToSlides raises nothing; each slide
\* that fails slideHasMeaningfulContent while the heuristic fallback slide of its
\* position passes it is replaced by that fallback slide; stats.fallbackReplacements
\* is the number of replaced slides and is present only when that number is at
\* least 1, and warnings then holds exactly one entry, which names the number.
C20_ThinSlidesReplaced ==
    (/\ call.fn = "summarizeToSlides"
     /\ ret # NoResult
     /\ Trim(call.text) # EmptyStr
     /\ call.completion.kind = "return"
     /\ call.completion.data \in {"good", "thin", "weak", "filler", "nonascii"}) =>
        LET stats == determineSlideCount(call.text)
            structured ==
                normalizeStructuredResponse(parseStructuredResponse(call.completion.data).data)
            fallback == normalizeStructuredResponse(buildHeuristicSummary(call.text, stats))
            slideAt(i) ==
                IF i <= Len(structured.slides) THEN structured.slides[i] ELSE [none |-> TRUE]
            fallbackAt(i) ==
                IF i <= Len(fallback.slides) THEN fallback.slides[i]
                ELSE fallback.slides[Len(fallback.slides)]
            replaced ==
                {i \in 1..stats.slideCount :
                    /\ ~slideHasMeaningfulContent(slideAt(i))
                    /\ slideHasMeaningfulContent(fallbackAt(i))}
            naming(n) ==
                {"Longcat returned incomplete content; substituted heuristic text for "
                 \o ToString(n) \o ending : ending \in {" section.", " sections."}}
        IN  /\ ret.kind = "return"
            /\ Len(ret.data.slides) = stats.slideCount
            /\ \A i \in replaced : ret.data.slides[i] = fallbackAt(i)
            /\ "fallbackReplacements" \in DOMAIN ret.data.stats <=> replaced # {}
            /\ replaced # {} =>
                  /\ ret.data.stats.fallbackReplacements = Cardinality(replaced)
                  /\ Len(ret.data.warnings) = 1
                  /\ ret.data.warnings[1] \in naming(Cardinality(replaced))
            /\ replaced = {} => ret.data.warnings = <<>>

\* C21: when the remote call returns a well-formed document with exactly the
\* target number of slides, all of which pass slideHasMeaningfulContent,
\* summarizeToSlides returns those slides in their order with no substitution:
\* warnings is empty, stats has no fallbackReplacements and docTitle is the
\* remote title.
C21_CleanSuccess ==
    (/\ call.fn = "summarizeToSlides"
     /\ ret # NoResult
     /\ Trim(call.text) # EmptyStr
     /\ call.completion = Return("good")) =>
        LET remote == normalizeStructuredResponse(parseStructuredResponse("good").data)
            clean ==
                /\ Len(remote.slides) = determineSlideCount(call.text).slideCount
                /\ \A i \in 1..Len(remote.slides) :
                      slideHasMeaningfulContent(remote.slides[i])
        IN  clean =>
              /\ ret.kind = "return"
              /\ ret.data.slides = remote.slides
              /\ ret.data.warnings = <<>>
              /\ "fallbackReplacements" \notin DOMAIN ret.data.stats
              /\ ret.data.docTitle = Lit(<<"P", "l", "a", "n">>)

C21_Witness ==
    /\ call.fn = "summarizeToSlides"
    /\ call.completion = Return("good")
    /\ StrLen(call.text) = 261
    /\ ret.kind = "return"
    /\ Len(ret.data.slides) = 2
    /\ \A i \in 1..2 :
          slideHasMeaningfulContent(
              normalizeStructuredResponse(parseStructuredResponse("good").data).slides[i])
    /\ ret.data.slides[1].headline = Lit(<<"T", "o", "p", "i", "c">>)
    /\ ret.data.warnings = <<>>

\* C22: current() returns null exactly when the pool is empty; markInvalid(c)
\* removes exactly c when the pool holds it and nothing otherwise, keeps the order
\* of the other credentials and returns the new current credential, or null when
\* the pool became empty; removing another credential than the current one
\* leaves current() as it was and removing the current one makes its successor
\* current.
C22_PoolContract ==
    (call.fn = "markInvalid" /\ ret # NoResult) =>
        LET before == current(call.pool, call.index)
            after == current(ret.data.pool, ret.data.index)
            others == SelectSeq(call.pool, LAMBDA k : k # call.key)
            successor == IF Len(others) = 0 THEN NullKey
                         ELSE others[(IndexOf(call.pool, call.key) % Len(others)) + 1]
        IN  /\ before = NullKey <=> call.pool = <<>>
            /\ after = NullKey <=> ret.data.pool = <<>>
            /\ ret.data.pool = others
            /\ ret.data.key = after
            /\ call.key # before => after = before
            /\ (call.key = before /\ call.pool # <<>>) => after = successor

\* C23: the credential pool of the completion client is the de-duplication, in
\* first-seen order, of the explicit key list, the explicit key, the environment
\* key list, the environment key and the built-in default key, each credential
\* read as sanitizeKey reads it; it holds no empty string and no duplicate and is
\* never empty.
C23_PoolOfSources ==
    (call.fn = "createLongcatClient" /\ ret # NoResult) =>
        LET sources == call.apiKeys \o <<call.apiKey>> \o call.LONGCAT_API_KEYS
                       \o <<call.LONGCAT_API_KEY>> \o <<DEFAULT_LONGCAT_KEY>>
            credentials == SelectSeq([i \in 1..Len(sources) |-> sanitizeKey(sources[i])],
                                     LAMBDA k : k # NullKey)
            firstSeen == SelectSeq([i \in 1..Len(credentials) |->
                                       IF \E j \in 1..(i - 1) : credentials[j] = credentials[i]
                                       THEN NullKey ELSE credentials[i]],
                                   LAMBDA k : k # NullKey)
        IN  /\ ret.data = firstSeen
            /\ ret.data # <<>>
            /\ \A i \in 1..Len(ret.data) : ret.data[i] # NullKey
            /\ \A i \in 1..Len(ret.data) : \A j \in 1..Len(ret.data) :
                  i # j => ret.data[i] # ret.data[j]

\* C24: the synthesis client retries a response with a transient status (5xx,
\* 408, 409, 425, 429): a call that fails on such a response has made all 3
\* attempts under its credential.
C24_TransientStatusRetried ==
    (/\ ttsPc = "done"
     /\ ttsResult.kind = "raise"
     /\ \E body \in TtsBodies : ttsResult.error = TtsStatusError(500, body)) =>
        ttsAttempt = MAX_TTS_ATTEMPTS

\* C25: a request for a registered fileId is answered with the stream of the
\* rendered file; once a stream of a fileId has closed, the fileId is out of
\* the download store and its file is deleted, and every request for that
\* fileId received after that is answered 404, so that no render is streamed
\* to a request that arrives after its first completed download
C25_SingleDownload ==
    /\ \A fileId \in closed : fileId \notin downloadStore /\ fileId \notin renders
    /\ \A i \in 1..Len(requests) :
          /\ requests[i].afterClose => requests[i].pc = "done" /\ requests[i].status = 404
          /\ requests[i].status = 200 =>
                /\ requests[i].fileId \in issued
                /\ requests[i].body = "video"
                /\ ~requests[i].afterClose
          /\ (requests[i].pc = "done" /\ requests[i].status = 200) =>
                requests[i].fileId \in closed

C25_Witness ==
    /\ Len(requests) = 3
    /\ requests[1] = [fileId |-> "f1", afterClose |-> FALSE, pc |-> "done",
                      status |-> 200, body |-> "video"]
    /\ requests[2].fileId = "f1" /\ ~requests[2].afterClose /\ requests[2].status = 200
    /\ requests[3] = [fileId |-> "f1", afterClose |-> TRUE, pc |-> "done",
                      status |-> 404, body |-> "File not found"]
    /\ "f1" \in closed /\ "f1" \notin downloadStore /\ "f1" \notin renders

\* C26: when a credential is answered 401/403 on any attempt and markInvalid
\* hands out another credential, the next fetch is attempt 1 under that
\* credential, and a request that has rotated still gives up on a transient
\* failure only at attempt MAX_ATTEMPTS: the attempts made under the rejected
\* credential are not charged to its successor
C26_FreshBudget ==
    /\ [][(/\ pc = "inflight" /\ pc' = "inflight"
           /\ \E status \in {401, 403}, detail \in Details :
                 lastError' = StatusError(status, detail)) =>
              (/\ attempt' = 1
               /\ calls' = calls + 1
               /\ apiKey' # NullKey
               /\ apiKey' = current(pool', index'))]_vars
    /\ [](/\ pc \in {"settled", "done"} /\ rejected # {} /\ postResult # NoResult
          /\ postResult.kind = "raise"
          /\ \/ postResult.error.message = UnreadableBodyMessage
             \/ \E status \in RETRYABLE_STATUS_CODES, detail \in Details :
                   postResult.error = StatusError(status, detail)
             \/ /\ IsErr(postResult.error.cause)
                /\ postResult.error.cause \in TransportErrors
                /\ isRetryableFetchError(postResult.error.cause)
          => attempt = MAX_ATTEMPTS)

\* a credential rejected on attempt 3 and its successor on its own attempt 3
C26_Witness ==
    /\ pc = "inflight" /\ calls = 6 /\ attempt = MAX_ATTEMPTS
    /\ Cardinality(rejected) = 1 /\ apiKey \notin rejected
    /\ apiKey = current(pool, index)

\* C27: parseStructuredResponse returns the result of the first strategy that
\* yields a document, in the order strict parse of the whole trimmed content,
\* parse of the content of a fenced block, parse of the text from the first
\* '{' to the last '}', the 'Slide N:' blocks of free text, its blank-line
\* sections; when none yields a document it raises 'Longcat response was not
\* valid JSON'
C27_SalvageOrder ==
    (call.fn = "parseStructuredResponse" /\ call.content # "" /\ ret # NoResult) =>
        LET parts == Payloads[call.content]
            payload(slides) ==
                [docTitle |-> slides[1].headline,
                 slides |-> [i \in 1..Len(slides) |->
                                Slide(slides[i].headline, EmptyStr, slides[i].bullets, NullChart)]]
        IN  ret = IF parts.direct # NoErr THEN Return(parts.direct)
                  ELSE IF parts.fenced # NoErr THEN Return(parts.fenced)
                  ELSE IF parts.sliced # NoErr THEN Return(parts.sliced)
                  ELSE IF parts.explicit # <<>> THEN Return(payload(parts.explicit))
                  ELSE IF parts.grouped # <<>> THEN Return(payload(parts.grouped))
                  ELSE Raise(Err(<<"Longcat", "response", "was", "not", "valid", "JSON">>,
                                 NoErr))

\* C28: on the remote path the returned docTitle is the fallback's title when
\* the first slide is substituted and the remote title is weak (empty or, with
\* the case of its letters ignored, one of the generic titles); in every other
\* case (a later slide substituted, a title that is not weak, no substitution)
\* it is the title of the remote document
C28_TitleReplacement ==
    (/\ call.fn = "summarizeToSlides" /\ ret # NoResult /\ Trim(call.text) # EmptyStr
     /\ call.completion \in {Return(content) : content \in {"good", "thin", "weak", "weaklate", "filler"}}) =>
        LET stats == determineSlideCount(call.text)
            remote == normalizeStructuredResponse(
                          parseStructuredResponse(call.completion.data).data)
            fallback == normalizeStructuredResponse(buildHeuristicSummary(call.text, stats))
            firstSubstituted ==
                /\ ~slideHasMeaningfulContent(remote.slides[1])
                /\ slideHasMeaningfulContent(fallback.slides[1])
            weak == \/ Trim(remote.docTitle) = EmptyStr
                    \/ \E generic \in {<<"G", "g">>, <<"S", "s">>} :
                          \E title \in genericTitles :
                             /\ remote.docTitle # EmptyStr /\ title[1].c = generic[2]
                             /\ remote.docTitle[1].c \in {generic[1], generic[2]}
                             /\ remote.docTitle[1].n = 1
                             /\ Tail(remote.docTitle) = Tail(title)
        IN  /\ ret.kind = "return"
            /\ ret.data.docTitle = IF firstSubstituted /\ weak THEN fallback.docTitle
                                   ELSE remote.docTitle

\* the remote title 'Summary' gives way to the title of the heuristic deck
C28_Witness ==
    /\ call.fn = "summarizeToSlides" /\ call.completion = Return("weak")
    /\ ret.kind = "return"
    /\ ret.data.docTitle # Lit(<<"S", "u", "m", "m", "a", "r", "y">>)
    /\ ret.data.docTitle = normalizeStructuredResponse(
           buildHeuristicSummary(call.text, determineSlideCount(call.text))).docTitle
    /\ "fallbackReplacements" \in DOMAIN ret.data.stats

\* C29: on the remote path the returned deck has exactly the target number of
\* slides however many slides the remote returned: the remote slides beyond
\* the target are dropped, the positions the remote left open hold the slide
\* of the heuristic deck (or the placeholder slide), and stats.plannedSections
\* equals stats.targetSections
C29_TargetCount ==
    (/\ call.fn = "summarizeToSlides" /\ ret # NoResult /\ Trim(call.text) # EmptyStr
     /\ call.completion \in {Return(content) : content \in {"good", "thin", "filler", "three",
                                                            "nine"}}) =>
        LET stats == determineSlideCount(call.text)
            target == stats.slideCount
            remote == normalizeStructuredResponse(
                          parseStructuredResponse(call.completion.data).data)
            fallback == normalizeStructuredResponse(buildHeuristicSummary(call.text, stats))
            chunk(i) == IF i <= Len(fallback.slides) THEN fallback.slides[i]
                        ELSE fallback.slides[Len(fallback.slides)]
            placeholder(i) == Slide(SectionLabel(i), EmptyStr, <<>>, NullChart)
        IN  /\ ret.kind = "return"
            /\ target \in 2..8
            /\ Len(ret.data.slides) = target
            /\ ret.data.stats.plannedSections = target
            /\ ret.data.stats.targetSections = target
            /\ \A i \in 1..target :
                  /\ (i <= Len(remote.slides) /\ slideHasMeaningfulContent(remote.slides[i])) =>
                        ret.data.slides[i] = FinalSlide(remote.slides[i], i - 1)
                  /\ i > Len(remote.slides) =>
                        ret.data.slides[i] =
                            FinalSlide(IF slideHasMeaningfulContent(chunk(i)) THEN chunk(i)
                                       ELSE placeholder(i), i - 1)

\* three remote slides for a target of two, and two remote slides for a target
\* of five
C29_Witness ==
    /\ call.fn = "summarizeToSlides" /\ ret.kind = "return"
    /\ \/ /\ call.completion = Return("three")
          /\ Len(ret.data.slides) = 2 /\ ret.data.warnings = <<>>
       \/ /\ call.completion = Return("good")
          /\ Len(ret.data.slides) = 5
          /\ ret.data.stats.fallbackReplacements = 3

\* C30: for a text of n sentences and a target of targetCount slides,
\* 2 <= targetCount <= 8 and n >= targetCount, buildHeuristicSummary returns
\* exactly targetCount slides, slide i made of the i-th run of
\* ceil(n / targetCount) sentences
C30_ChunksFillTarget ==
    (/\ call.fn = "buildHeuristicSummary" /\ ret # NoResult
     /\ Len(splitIntoSentences(call.text)) >= call.stats.slideCount) =>
        LET sentences == splitIntoSentences(call.text)
            n == Len(sentences)
            targetCount == call.stats.slideCount
            size == CHOOSE k \in 1..n : k * targetCount >= n /\ (k - 1) * targetCount < n
        IN  /\ Len(ret.data.slides) = targetCount
            /\ \A i \in 1..Len(ret.data.slides) :
                  /\ (i - 1) * size < n
                  /\ ret.data.slides[i].paragraph =
                        LET chunk == SubSeq(sentences, (i - 1) * size + 1,
                                            IF i * size < n THEN i * size ELSE n)
                        IN  Canon([j \in 1..(3 * Len(chunk) - 1) |->
                                      IF j % 3 = 0 THEN Run(" ", 1)
                                      ELSE chunk[(j + 2) \div 3][((j - 1) % 3) + 1]])

\* C31: within one create-video request the steps run in slide order: the
\* image of slide i + 1 is produced after the image of slide i, the synthesis
\* of slide i + 1 starts after the synthesis of slide i has ended, stitching
\* starts when the clips of all slides exist, and part i of the stitched
\* voiceover is the clip of slide i
C31_SlideOrder ==
    LET at(step, slide) == {k \in 1..Len(events) : events[k] = [step |-> step, slide |-> slide]}
        before(first, second) == \A k \in second : \E j \in first : j < k
    IN  /\ \A i \in 1..MaxSlides :
              /\ before(at("image", i), at("image", i + 1))
              /\ before(at("synthesis-end", i), at("synthesis-start", i + 1))
              /\ before(at("synthesis-start", i), at("synthesis-end", i))
              /\ Cardinality(at("image", i)) <= 1
              /\ Cardinality(at("synthesis-start", i)) <= 1
        /\ \A i \in 1..Len(mediaEntries) : mediaEntries[i].slide = i
        /\ \A i \in 1..Len(audioClips) : audioClips[i].filePath = mediaEntries[i].localPath
        /\ \A i \in 1..plannedSlides : before(at("synthesis-end", i), at("stitch", 0))
        /\ at("stitch", 0) # {} => Len(audioClips) = plannedSlides
        /\ (voiceover # NoResult /\ voiceover.parts # <<>>) =>
              /\ Len(voiceover.parts) = plannedSlides
              /\ \A i \in 1..plannedSlides :
                    voiceover.parts[i].inputPath = mediaEntries[i].localPath

\* three slides synthesized and stitched
C31_Witness ==
    /\ videoPc = "render" /\ plannedSlides = 3
    /\ Len(voiceover.parts) = 3
    /\ voiceover.parts[3].inputPath = 3
    /\ events[Len(events)].step = "stitch"

\* C32: in every reachable state the cursor of a pool is 0, so that current()
\* is the first remaining entry of the pool in construction order and the
\* cursor is never at or past the end of a pool that holds an entry
C32_CursorStaysAtZero ==
    /\ index = 0 /\ keyManager.index = 0 /\ voiceManager.index = 0
    /\ \A manager \in {keyManager, voiceManager, [pool |-> pool, index |-> index]} :
          manager.pool # <<>> =>
              /\ manager.index < Len(manager.pool)
              /\ current(manager.pool, manager.index) = manager.pool[1]
    /\ ttsPc = "inflight" =>
          currentKey = keyManager.pool[1] /\ currentVoiceId = voiceManager.pool[1]

\* a key pool that has lost a key and still holds two
C32_Witness ==
    /\ ttsPc = "inflight" /\ "reject" \in ttsSeen
    /\ Len(keyManager.pool) >= 2 /\ keyManager.index = 0
    /\ currentKey = keyManager.pool[1]

\* C33: once every credential of the client has been rejected the pool stays
\* empty, and every later post() raises 'Longcat request failed: no API keys
\* available' without a network call
C33_EmptyPoolIsFinal ==
    /\ [][pool = <<>> => pool' = <<>>]_vars
    /\ [][(pool = <<>> /\ pc \in {"idle", "done"} /\ pc' # pc /\ Trim(text') # EmptyStr) =>
            /\ pc' = "settled"
            /\ calls' = 0
            /\ postResult' = Raise(Err(<<"Longcat", "request", "failed", ":", "no", "API",
                                         "keys", "available">>, NoErr))]_vars
    /\ [](pool = <<>> /\ pc = "inflight" => FALSE)

\* a request received by a client whose credentials were all rejected
C33_Witness ==
    /\ pool = <<>> /\ startPool = <<>> /\ configured # <<>>
    /\ pc = "settled" /\ calls = 0
    /\ postResult = Raise(Err(<<"Longcat", "request", "failed", ":", "no", "API", "keys",
                                "available">>, NoErr))

\* C34: with post() invocations interleaved on the shared client, every
\* fetch() is issued under a credential that is in the pool at that moment:
\* none is issued under a credential markInvalid has removed
C34_NoCallWithRemovedKey ==
    [][(pc' = "inflight" /\ (pc # "inflight" \/ calls' = calls + 1)) =>
            apiKey' \in Range(pool')]_vars

\* C35: under one credential a retryable transport error, a retryable status
\* and an unreadable body are charged to the same budget of 3 attempts: such a
\* failure of attempt 1 or 2 is followed by the next attempt under the same
\* credential, the third one raises without a further call, whatever the
\* kinds of the failures before it
C35_SharedBudget ==
    /\ [](pc = "inflight" => attempt \in 1..MAX_ATTEMPTS)
    /\ [][ \/ \E error \in TransportErrors : isRetryableFetchError(error) /\ FetchFails(error)
           \/ \E status \in RETRYABLE_STATUS_CODES, detail \in Details :
                  RespondNotOk(status, detail)
           \/ RespondOk("unreadable")
           => IF attempt = 3
              THEN /\ pc' = "settled"
                   /\ postResult'.kind = "raise"
                   /\ calls' = calls
              ELSE /\ pc' = "inflight"
                   /\ apiKey' = apiKey
                   /\ attempt' = attempt + 1
                   /\ calls' = calls + 1 ]_vars

\* a third attempt that fails on an unreadable body after failures of the
\* other kinds, all under the one credential of the pool
C35_Witness ==
    /\ pc = "settled"
    /\ Len(startPool) = 1 /\ pool = startPool
    /\ calls = 3 /\ attempt = 3
    /\ seen = {"transient", "other"}
    /\ postResult = Raise(Err(UnreadableBodyMessage, JsonSyntaxError))

\* C36: in synthesizeHeadline a 401/403 removes the current key only and a
\* 400 with voice_limit_reached the current voice only, the call that follows
\* a rotation is attempt 1, an emptied pool ends the invocation with 'All
\* ElevenLabs API keys failed' or 'All ElevenLabs voice IDs were rejected',
\* and an invocation that started with K keys and V voices issues at most
\* 3 x (K + V - 1) calls
C36_Rotations ==
    /\ [](ttsCalls <= 3 * (Len(ttsStartPools.keys) + Len(ttsStartPools.voices) - 1)
            \/ ttsStartPools.keys = <<>> \/ ttsStartPools.voices = <<>>)
    /\ [][ \A status \in {401, 403}, body \in TtsBodies :
              TtsRespondNotOk(status, body) =>
                  /\ Range(keyManager'.pool) = Range(keyManager.pool) \ {currentKey}
                  /\ voiceManager'.pool = voiceManager.pool
                  /\ IF keyManager'.pool = <<>>
                     THEN /\ ttsPc' = "done" /\ ttsCalls' = ttsCalls
                          /\ ttsResult'.kind = "raise"
                          /\ SubSeq(ttsResult'.error.message, 1, 5) =
                                 <<"All", "ElevenLabs", "API", "keys", "failed">>
                     ELSE ttsPc' = "inflight" /\ ttsAttempt' = 1 ]_vars
    /\ [][ TtsRespondNotOk(400, <<"voice_limit_reached">>) =>
              /\ Range(voiceManager'.pool) = Range(voiceManager.pool) \ {currentVoiceId}
              /\ keyManager'.pool = keyManager.pool
              /\ IF voiceManager'.pool = <<>>
                 THEN /\ ttsPc' = "done" /\ ttsCalls' = ttsCalls
                      /\ ttsResult'.kind = "raise"
                      /\ SubSeq(ttsResult'.error.message, 1, 6) =
                             <<"All", "ElevenLabs", "voice", "IDs", "were", "rejected">>
                 ELSE ttsPc' = "inflight" /\ ttsAttempt' = 1 ]_vars

\* the number of sentences in the paragraphs of the first k slides
RECURSIVE SentencesBefore(_, _)
SentencesBefore(slides, k) ==
    IF k = 0 THEN 0
    ELSE SentencesBefore(slides, k - 1) + Len(splitIntoSentences(slides[k].paragraph))

\* C37: the chunks of buildHeuristicSummary are runs of consecutive
\* sentences, each starting where the one before it ends, the first at the
\* first sentence and the last ending at the last one, so that every sentence
\* of the text is in exactly one chunk; there are at most targetCount slides
C37_ChunksPartition ==
    (call.fn = "buildHeuristicSummary" /\ ret # NoResult) =>
        LET sentences == splitIntoSentences(call.text)
            slides == ret.data.slides
            chunk(i) == splitIntoSentences(slides[i].paragraph)
        IN  /\ Len(slides) <= call.stats.slideCount
            /\ SentencesBefore(slides, Len(slides)) = Len(sentences)
            /\ \A i \in 1..Len(slides) :
                  /\ Len(chunk(i)) >= 1
                  /\ chunk(i) = SubSeq(sentences, SentencesBefore(slides, i - 1) + 1,
                                       SentencesBefore(slides, i))

\* seven sentences for a target of three slides: chunks of 3, 3 and 1
C37_Witness ==
    /\ call.fn = "buildHeuristicSummary" /\ ret # NoResult
    /\ Len(splitIntoSentences(call.text)) = 7
    /\ call.stats.slideCount = 3
    /\ Len(ret.data.slides) = 3
    /\ Len(splitIntoSentences(ret.data.slides[2].paragraph)) = 3
    /\ Len(splitIntoSentences(ret.data.slides[3].paragraph)) = 1

\* C38: on the remote path a slide that fails the quality gate is replaced by
\* the fallback slide chosen for its position only when that fallback slide
\* passes the gate; when it fails too, the remote slide (the placeholder slide
\* where the remote has none) is kept, and only the replaced slides are
\* counted in fallbackReplacements and announced by the warning
C38_SubstitutionGate ==
    (/\ call.fn = "summarizeToSlides" /\ ret # NoResult /\ Trim(call.text) # EmptyStr
     /\ call.completion \in {Return(content) : content \in {"good", "thin", "weak", "weaklate",
                                                            "filler", "three"}}) =>
        LET stats == determineSlideCount(call.text)
            remote == normalizeStructuredResponse(
                          parseStructuredResponse(call.completion.data).data)
            fallback == normalizeStructuredResponse(buildHeuristicSummary(call.text, stats))
            chosen(i) == IF i <= Len(fallback.slides) THEN fallback.slides[i]
                         ELSE fallback.slides[Len(fallback.slides)]
            placeholder(i) == Slide(SectionLabel(i), EmptyStr, <<>>, NullChart)
            kept(i) == IF i <= Len(remote.slides) THEN remote.slides[i] ELSE placeholder(i)
            failing == {i \in 1..Len(ret.data.slides) :
                           i > Len(remote.slides)
                           \/ ~slideHasMeaningfulContent(remote.slides[i])}
            replaced == {i \in failing : slideHasMeaningfulContent(chosen(i))}
        IN  /\ ret.kind = "return"
            /\ \A i \in replaced : ret.data.slides[i] = FinalSlide(chosen(i), i - 1)
            /\ \A i \in failing \ replaced : ret.data.slides[i] = FinalSlide(kept(i), i - 1)
            /\ IF replaced = {}
               THEN /\ "fallbackReplacements" \notin DOMAIN ret.data.stats
                    /\ ret.data.warnings = <<>>
               ELSE /\ ret.data.stats.fallbackReplacements = Cardinality(replaced)
                    /\ Len(ret.data.warnings) = 1

\* two remote slides for a target of four, and a last fallback slide ('Hi.')
\* that fails the gate: positions 3 and 4 keep the placeholder slide
C38_Witness ==
    /\ call.fn = "summarizeToSlides" /\ call.completion = Return("good")
    /\ ret.kind = "return"
    /\ Len(ret.data.slides) = 4
    /\ ret.data.slides[3] = FinalSlide(Slide(SectionLabel(3), EmptyStr, <<>>, NullChart), 2)
    /\ ~slideHasMeaningfulContent(ret.data.slides[3])
    /\ "fallbackReplacements" \notin DOMAIN ret.data.stats
    /\ ret.data.warnings = <<>>

\* C39: the fallback slide used at position i is slide i of the heuristic
\* deck when that deck has at least i slides and its last slide otherwise, so
\* that one fallback slide can stand at several positions; the heuristic
\* deck is built at most once per invocation, and not at all unless a slide
\* fails the quality gate
C39_FallbackChoice ==
    /\ (/\ call.fn = "summarizeToSlides" /\ ret # NoResult /\ Trim(call.text) # EmptyStr
        /\ call.completion \in {Return(content) : content \in {"good", "thin", "weak", "three"}}
        /\ ret.kind = "return") =>
           LET stats == determineSlideCount(call.text)
               remote == normalizeStructuredResponse(
                             parseStructuredResponse(call.completion.data).data)
               deck == normalizeStructuredResponse(buildHeuristicSummary(call.text, stats)).slides
               failing(i) == i > Len(remote.slides)
                             \/ ~slideHasMeaningfulContent(remote.slides[i])
           IN  \A i \in 1..Len(ret.data.slides) :
                  /\ (failing(i) /\ i <= Len(deck) /\ slideHasMeaningfulContent(deck[i])) =>
                         ret.data.slides[i] = FinalSlide(deck[i], i - 1)
                  /\ (failing(i) /\ i > Len(deck) /\ slideHasMeaningfulContent(deck[Len(deck)])) =>
                         ret.data.slides[i] = FinalSlide(deck[Len(deck)], i - 1)
    /\ (call.fn = "ensureFallbackData" /\ ret # NoResult /\ ret.kind = "return") =>
           LET stats == determineSlideCount(call.text)
               remote == normalizeStructuredResponse(parseStructuredResponse(call.content).data)
               target == Min(Max(stats.slideCount, 2), 8)
               someFails == \E i \in 1..target :
                               i > Len(remote.slides)
                               \/ ~slideHasMeaningfulContent(remote.slides[i])
           IN  /\ ret.data.computed <= 1
               /\ ret.data.computed = 1 <=> someFails
               /\ ret.data.computed = 0 <=> ret.data.fallbackData = NoErr

\* positions 3, 4 and 5 hold the last slide of a heuristic deck of two slides,
\* and the loop that substitutes them builds the heuristic deck once
C39_Witness ==
    /\ call.fn = "ensureFallbackData" /\ call.content = "good"
    /\ ret.kind = "return"
    /\ ret.data.computed = 1
    /\ Len(ret.data.fallbackData.slides) = 2
    /\ determineSlideCount(call.text).slideCount = 5
    /\ pickFallbackSlide(ret.data.fallbackData.slides, 3) = ret.data.fallbackData.slides[2]
    /\ pickFallbackSlide(ret.data.fallbackData.slides, 5) = ret.data.fallbackData.slides[2]

====
